---------------------------- MODULE Spec2Model ----------------------------
(***************************************************************************)
(* rl-autoscale: the process-wide metrics registry (metrics.py), the       *)
(* request observation pipeline (RLMetrics.observe_request, inc/dec of the *)
(* in-progress gauge) and the Flask and FastAPI adapters that drive it.    *)
(*                                                                         *)
(* Durations are integers (milliseconds), sizes are integers (bytes).      *)
(* prometheus_client is an external library: its metric objects are        *)
(* modelled by what the calls made in metrics.py do to them (a registry of *)
(* names that rejects duplicates, bucket validation in Histogram, values   *)
(* guarded by a per-value mutex).                                          *)
(***************************************************************************)
EXTENDS Integers, Sequences, FiniteSets, TLC

(***************************************************************************)
(* Bounds of the model.                                                    *)
(***************************************************************************)
NThreads == 2          \* threads calling get_metrics_registry
MaxCtor == 2           \* RLMetrics constructor runs in one behaviour
NWorkers == 2          \* workers (request threads) using the metrics
MaxObs == 2            \* observe_request calls of a sequential caller
CallsEach == 2         \* observe_request calls of each concurrent caller
MaxGaugeCalls == 4     \* inc/dec_in_progress calls in one behaviour
MaxRequests == 2       \* requests arriving at an adapter in one behaviour
MaxTracks == 2         \* track_in_progress blocks entered in one behaviour
MaxSetups == 2         \* setup calls made in one behaviour
MaxSegments == 2       \* segments of a path handed to normalize_api_paths

Threads == 1..NThreads

(***************************************************************************)
(* Python values.                                                          *)
(***************************************************************************)
None == "<None>"       \* None where a str is expected
NoBuckets == <<>>      \* None where a bucket list is expected (the empty
                       \* list itself is not among the inputs)
NoInstance == [id |-> 0]   \* _metrics_instance = None
NoThread == 0          \* the lock is free
Raised == [id |-> -1]  \* the call ended by raising

VARIABLES
    _metrics_instance, \* metrics.py:232, the global singleton
    _metrics_lock,     \* metrics.py:20, the thread holding the lock
    registered,        \* names held by prometheus_client's global REGISTRY
    environ,           \* os.environ["RL_METRICS_NAMESPACE"], "" when unset
    gpc,               \* per thread: position inside get_metrics_registry
    gargs,             \* per thread: the arguments of its current or last call
    gnew,              \* per thread: the instance built, not yet assigned
    gret,              \* per thread: what its last call returned
    ctorRuns,          \* history: RLMetrics.__init__ entered
    ctorRaised,        \* history: RLMetrics.__init__ left by raising
    firstBuilt          \* history: resolved arguments of the first
                       \* constructor run that returned

regVars == <<_metrics_instance, _metrics_lock, registered, environ, gpc,
             gargs, gnew, gret, ctorRuns, ctorRaised, firstBuilt>>

VARIABLES
    request_latency,      \* metrics.py:93, children keyed by <<method, path>>
    request_count,        \* metrics.py:105, children keyed by
                          \* <<method, path, http_status, error_type>>
    requests_in_progress, \* metrics.py:114, children keyed by method
    response_size,        \* metrics.py:125, children keyed by <<method, path>>
    value_locks,          \* the metric values whose mutex is held
    pc,                   \* per worker: the statement it is at
    obs,                  \* per worker: the locals of observe_request
    gop,                  \* per worker: the locals of inc/dec_in_progress
    ncalls,               \* history, per worker: observe_request calls returned
    nlost,                \* history: returned calls that raised inside before
                          \* the counter was incremented
    ninc,                 \* history, per method: inc_in_progress calls returned
    ndec                  \* history, per method: dec_in_progress calls returned

metricVars == <<request_latency, request_count, requests_in_progress,
                response_size, value_locks>>

workerVars == <<pc, obs, gop, ncalls, nlost, ninc, ndec>>

VARIABLES
    app,    \* what enable_metrics configured: the framework, the exclude
            \* list and the normalizer closed over by the hooks
    req,    \* per worker: the request it handles
    nreqs   \* history: requests that have arrived

adapterVars == <<app, req, nreqs>>

VARIABLES
    platform,  \* the operating system, which words the text of an OSError
    port,      \* the metrics port as this process finds it: "free",
               \* "in_use" (bound by another process), "denied"
    server,    \* "started" once start_http_server has bound the port
    setup      \* history: the last setup call made and what came of it

setupVars == <<platform, port, server, setup>>

VARIABLES
    raw_path,    \* the path handed to normalize_api_paths, as its characters
    normalized   \* what normalize_api_paths returned for it

normVars == <<raw_path, normalized>>

vars ==
    <<regVars, metricVars, workerVars, adapterVars, setupVars, normVars>>

(***************************************************************************)
(* RLMetrics.__init__ (metrics.py:35-166).                                 *)
(***************************************************************************)
\* metrics.py:61-74, in milliseconds
DefaultHistogramBuckets ==
    <<5, 10, 25, 50, 100, 250, 500, 1000, 2500, 5000, 10000>>

\* metrics.py:79-87, in bytes
DefaultResponseSizeBuckets ==
    <<100, 1000, 10000, 100000, 1000000, 10000000>>

\* metrics.py:61-76
ResolveHistogramBuckets(b) ==
    IF b = NoBuckets THEN DefaultHistogramBuckets ELSE b

\* metrics.py:79-89
ResolveResponseSizeBuckets(b) ==
    IF b = NoBuckets THEN DefaultResponseSizeBuckets ELSE b

\* f"{namespace}_<base>" if namespace else "<base>" (metrics.py:94-96 ...)
MetricName(namespace, base) ==
    IF namespace # "" THEN namespace \o "_" \o base ELSE base

\* The metrics __init__ registers, in the order it creates them.
MetricBases ==
    << "http_request_duration_seconds",   \* metrics.py:93
       "http_requests_total",             \* metrics.py:105
       "http_requests_in_progress",       \* metrics.py:114
       "http_response_size_bytes",        \* metrics.py:125
       "app",                             \* metrics.py:137
       "app_started_timestamp_seconds" >> \* metrics.py:154

\* Histogram(buckets=...) raises ValueError unless the bounds are in sorted
\* order and there is at least one of them (prometheus_client appends +Inf
\* and wants two buckets).  Equal neighbours and non-positive bounds pass.
HistogramAcceptsBuckets(b) ==
    /\ Len(b) >= 1
    /\ \A i \in 1..(Len(b) - 1) : b[i] <= b[i + 1]

\* The names of the metrics created before metric number k.
NamesBefore(namespace, k) ==
    { MetricName(namespace, MetricBases[i]) : i \in 1..(k - 1) }

\* The first metric of __init__ whose creation raises, 0 when none does:
\* a histogram with rejected buckets, or a name the registry already holds
\* ("Duplicated timeseries in CollectorRegistry").
FirstFailingMetric(reg, namespace, hb, sb) ==
    LET fails(k) ==
            \/ k = 1 /\ ~HistogramAcceptsBuckets(hb)
            \/ k = 4 /\ ~HistogramAcceptsBuckets(sb)
            \/ MetricName(namespace, MetricBases[k]) \in reg
        bad == { k \in 1..Len(MetricBases) : fails(k) }
    IN  IF bad = {} THEN 0
        ELSE CHOOSE k \in bad : \A j \in bad : k <= j

\* RLMetrics(namespace=..., histogram_buckets=..., response_size_buckets=...)
\* run against registry contents reg; id names the object built.
RLMetrics_init(reg, id, namespace, histogram_buckets, response_size_buckets) ==
    LET hb == ResolveHistogramBuckets(histogram_buckets)
        sb == ResolveResponseSizeBuckets(response_size_buckets)
        k  == FirstFailingMetric(reg, namespace, hb, sb)
    IN  IF k = 0
        THEN [raised |-> FALSE,
              registered |-> reg \cup NamesBefore(namespace, Len(MetricBases) + 1),
              self |-> [id |-> id, namespace |-> namespace,
                        histogram_buckets |-> hb,
                        response_size_buckets |-> sb]]
        ELSE [raised |-> TRUE,
              registered |-> reg \cup NamesBefore(namespace, k),
              self |-> NoInstance]

(***************************************************************************)
(* get_metrics_registry (metrics.py:235-282).                              *)
(***************************************************************************)
\* The configurations callers pass: all defaults; a full custom one; one
\* whose latency buckets are unsorted (the first Histogram raises); one
\* whose size buckets are unsorted (__init__ raises after registering three
\* metrics).
Configs ==
    { [namespace |-> None, histogram_buckets |-> NoBuckets,
       response_size_buckets |-> NoBuckets],
      [namespace |-> "a", histogram_buckets |-> <<1, 10>>,
       response_size_buckets |-> <<100, 1000>>],
      [namespace |-> "b", histogram_buckets |-> <<10, 1>>,
       response_size_buckets |-> NoBuckets],
      [namespace |-> "a", histogram_buckets |-> NoBuckets,
       response_size_buckets |-> <<1000, 100>>] }

NoArgs == [namespace |-> None, histogram_buckets |-> NoBuckets,
           response_size_buckets |-> NoBuckets]

\* metrics.py:267-268: namespace = os.getenv("RL_METRICS_NAMESPACE", "")
ResolveNamespace(namespace, env) ==
    IF namespace = None THEN env ELSE namespace

\* metrics.py:262, the check made without the lock
FirstCheck(instance) == instance = NoInstance

\* A double check that is no check: the instance is rebuilt by every call
\* that takes the lock.
SecondCheckAlways(instance) == TRUE

\* metrics.py:265, the check made under the lock
SecondCheck(instance) == instance = NoInstance

\* A lock that excludes nobody.
LockFreeAlways(lock) == TRUE

\* metrics.py:263, threading.Lock: acquire waits until no thread holds it
LockFree(lock) == lock = NoThread

\* A with block that never releases the lock.
ReleaseLockNever(lock, t) == lock

\* metrics.py:263: leaving the with block, normally or by an exception,
\* releases the lock its thread holds
ReleaseLock(lock, t) == IF lock = t THEN NoThread ELSE lock

\* A caller enters get_metrics_registry(namespace, histogram_buckets,
\* response_size_buckets).
get_metrics_registry_call(t, args) ==
    /\ gpc[t] = "idle"
    /\ gpc' = [gpc EXCEPT ![t] = "check"]
    /\ gargs' = [gargs EXCEPT ![t] = args]
    /\ UNCHANGED <<_metrics_instance, _metrics_lock, registered, environ,
                   gnew, gret, ctorRuns, ctorRaised, firstBuilt>>
    /\ UNCHANGED <<metricVars, workerVars, adapterVars, setupVars, normVars>>

\* metrics.py:262: if _metrics_instance is None
get_metrics_registry_check(t) ==
    /\ gpc[t] = "check"
    /\ gpc' = [gpc EXCEPT ![t] =
                 IF FirstCheck(_metrics_instance) THEN "lock" ELSE "return"]
    /\ UNCHANGED <<_metrics_instance, _metrics_lock, registered, environ,
                   gargs, gnew, gret, ctorRuns, ctorRaised, firstBuilt>>
    /\ UNCHANGED <<metricVars, workerVars, adapterVars, setupVars, normVars>>

\* metrics.py:263: with _metrics_lock
get_metrics_registry_lock(t) ==
    /\ gpc[t] = "lock"
    /\ LockFree(_metrics_lock)
    /\ _metrics_lock' = t
    /\ gpc' = [gpc EXCEPT ![t] = "recheck"]
    /\ UNCHANGED <<_metrics_instance, registered, environ, gargs, gnew,
                   gret, ctorRuns, ctorRaised, firstBuilt>>
    /\ UNCHANGED <<metricVars, workerVars, adapterVars, setupVars, normVars>>

\* metrics.py:265: if _metrics_instance is None, under the lock
get_metrics_registry_recheck(t) ==
    /\ gpc[t] = "recheck"
    /\ gpc' = [gpc EXCEPT ![t] =
                 IF SecondCheck(_metrics_instance) THEN "construct"
                 ELSE "unlock"]
    /\ UNCHANGED <<_metrics_instance, _metrics_lock, registered, environ,
                   gargs, gnew, gret, ctorRuns, ctorRaised, firstBuilt>>
    /\ UNCHANGED <<metricVars, workerVars, adapterVars, setupVars, normVars>>

\* metrics.py:267-280: the environment defaults, then RLMetrics(...).  A
\* constructor that raises leaves the with block, which releases the lock,
\* and the exception reaches the caller.
get_metrics_registry_construct(t) ==
    /\ gpc[t] = "construct"
    /\ ctorRuns < MaxCtor
    /\ LET ns == ResolveNamespace(gargs[t].namespace, environ)
           r  == RLMetrics_init(registered, ctorRuns + 1, ns,
                                gargs[t].histogram_buckets,
                                gargs[t].response_size_buckets)
       IN  /\ registered' = r.registered
           /\ ctorRuns' = ctorRuns + 1
           /\ IF r.raised
              THEN /\ ctorRaised' = ctorRaised + 1
                   /\ _metrics_lock' = ReleaseLock(_metrics_lock, t)
                   /\ gpc' = [gpc EXCEPT ![t] = "idle"]
                   /\ gret' = [gret EXCEPT ![t] = Raised]
                   /\ UNCHANGED <<gnew, gargs, firstBuilt>>
              ELSE /\ gnew' = [gnew EXCEPT ![t] = r.self]
                   /\ gpc' = [gpc EXCEPT ![t] = "assign"]
                   /\ firstBuilt' =
                        IF firstBuilt = NoInstance
                        THEN [r.self EXCEPT
                                !.namespace =
                                    ResolveNamespace(gargs[t].namespace, environ),
                                !.histogram_buckets =
                                    ResolveHistogramBuckets(
                                        gargs[t].histogram_buckets),
                                !.response_size_buckets =
                                    ResolveResponseSizeBuckets(
                                        gargs[t].response_size_buckets)]
                        ELSE firstBuilt
                   /\ UNCHANGED <<ctorRaised, _metrics_lock, gret, gargs>>
    /\ UNCHANGED <<_metrics_instance, environ>>
    /\ UNCHANGED <<metricVars, workerVars, adapterVars, setupVars, normVars>>

\* metrics.py:274: _metrics_instance = <the object built>
get_metrics_registry_assign(t) ==
    /\ gpc[t] = "assign"
    /\ _metrics_instance' = gnew[t]
    /\ gnew' = [gnew EXCEPT ![t] = NoInstance]
    /\ gpc' = [gpc EXCEPT ![t] = "unlock"]
    /\ UNCHANGED <<_metrics_lock, registered, environ, gargs, gret,
                   ctorRuns, ctorRaised, firstBuilt>>
    /\ UNCHANGED <<metricVars, workerVars, adapterVars, setupVars, normVars>>

\* the end of the with block: the lock is released
get_metrics_registry_unlock(t) ==
    /\ gpc[t] = "unlock"
    /\ _metrics_lock' = ReleaseLock(_metrics_lock, t)
    /\ gpc' = [gpc EXCEPT ![t] = "return"]
    /\ UNCHANGED <<_metrics_instance, registered, environ, gargs, gnew,
                   gret, ctorRuns, ctorRaised, firstBuilt>>
    /\ UNCHANGED <<metricVars, workerVars, adapterVars, setupVars, normVars>>

\* metrics.py:282: return _metrics_instance
get_metrics_registry_return(t) ==
    /\ gpc[t] = "return"
    /\ gret' = [gret EXCEPT ![t] = _metrics_instance]
    /\ gpc' = [gpc EXCEPT ![t] = "idle"]
    /\ UNCHANGED <<_metrics_instance, _metrics_lock, registered, environ,
                   gargs, gnew, ctorRuns, ctorRaised, firstBuilt>>
    /\ UNCHANGED <<metricVars, workerVars, adapterVars, setupVars, normVars>>

(***************************************************************************)
(* The metric objects of one RLMetrics instance and the workers (request   *)
(* threads or tasks) that call its methods.                                *)
(***************************************************************************)
Workers == 1..NWorkers

NoSize == -1           \* response_size = None where an int is expected


Methods == {"GET", "POST"}

(***************************************************************************)
(* prometheus_client metric children.  labels(...) returns the child of a  *)
(* label combination, creating it at zero on first use.                    *)
(***************************************************************************)
NoChildren == [k \in {} |-> 0]

\* Histogram child created by labels() for bounds b1 < ... < bn: one count
\* per bucket, the last being the +Inf bucket, and the sum of observations.
HistogramChild(bounds) ==
    [buckets |-> [i \in 1..(Len(bounds) + 1) |-> 0], sum |-> 0]

\* Histogram.observe(amount) on a child: the sum grows by amount and the
\* first bucket whose bound is >= amount counts it (the +Inf bucket when
\* there is none); the exposed per-bucket counts are cumulative sums.
\* A bucket test that leaves an observation equal to the bound out of the
\* bucket.
BucketFitsStrict(amount, bound) == amount < bound

\* Histogram.observe: if amount <= bound
BucketFits(amount, bound) == amount <= bound

HistogramObserve(child, bounds, amount) ==
    LET fit == { i \in 1..Len(bounds) : BucketFits(amount, bounds[i]) }
        b   == IF fit = {} THEN Len(bounds) + 1
               ELSE CHOOSE i \in fit : \A j \in fit : i <= j
    IN  [buckets |-> [child.buckets EXCEPT ![b] = @ + 1],
         sum |-> child.sum + amount]

\* metric.labels(key).observe(amount)
LabelsObserve(metric, key, bounds, amount) ==
    [k \in DOMAIN metric \cup {key} |->
        IF k = key
        THEN HistogramObserve(
                 IF key \in DOMAIN metric THEN metric[key]
                 ELSE HistogramChild(bounds), bounds, amount)
        ELSE metric[k]]

\* metric.labels(key): the child's value, 0 for a child created now
LabelsGet(metric, key) ==
    IF key \in DOMAIN metric THEN metric[key] ELSE 0

\* the child's value is set (creating the child)
LabelsSet(metric, key, value) ==
    [k \in DOMAIN metric \cup {key} |-> IF k = key THEN value ELSE metric[k]]

\* A value mutex that excludes nobody: inc becomes an unprotected
\* read-modify-write.
ValueLockFreeAlways(locks, id) == TRUE

\* MutexValue.inc: with self._lock
ValueLockFree(locks, id) == id \notin locks

(***************************************************************************)
(* str(status_code) (metrics.py:196).                                      *)
(***************************************************************************)
Digit(d) == <<"0", "1", "2", "3", "4", "5", "6", "7", "8", "9">>[d + 1]

RECURSIVE NatToStr(_)
NatToStr(n) ==
    IF n < 10 THEN Digit(n) ELSE NatToStr(n \div 10) \o Digit(n % 10)

str(n) == IF n < 0 THEN "-" \o NatToStr(-n) ELSE NatToStr(n)

(***************************************************************************)
(* RLMetrics.observe_request (metrics.py:168-203).                         *)
(***************************************************************************)
\* A classification whose client range starts one too late.
ErrorTypeOffByOne(status_code) ==
    IF 400 < status_code /\ status_code < 500 THEN "client_error"
    ELSE IF status_code >= 500 THEN "server_error"
    ELSE "none"

\* metrics.py:188-192
ErrorType(status_code) ==
    IF 400 <= status_code /\ status_code < 500 THEN "client_error"
    ELSE IF status_code >= 500 THEN "server_error"
    ELSE "none"

\* No handler: the exception leaves observe_request.
ExceptHandlerMissing == "obs_raised"

\* metrics.py:202: except Exception catches what the try block raises
ExceptHandler == "obs_except"

\* A size test by truth value: a size of 0 is not recorded.
SizeProvidedTruthy(size) == size # NoSize /\ size # 0

\* metrics.py:200: if response_size is not None
SizeProvided(size) == size # NoSize

NoSnapshot == [taken |-> FALSE]

NoObs == [method |-> "", path |-> "", duration |-> 0, status_code |-> 0,
          response_size |-> NoSize, error_type |-> "", fail_at |-> "none",
          failed |-> FALSE, logged |-> FALSE, read |-> 0, cont |-> "idle",
          pre |-> NoSnapshot]

NoGop == [method |-> "", amount |-> 0, read |-> 0, cont |-> "idle"]

\* The state of the four metrics, kept at the entry of a call to compare
\* with at its return.
Snapshot ==
    [taken |-> TRUE, latency |-> request_latency, count |-> request_count,
     size |-> response_size, in_progress |-> requests_in_progress]

\* observe_request(method, path, duration, status_code, response_size) is
\* entered by worker w, to continue at cont when it returns.  fail_at names
\* the metric mutation that raises in this call ("none": none does).
\* metrics.py:186-192: the error type is determined first.
EnterObserveRequest(w, method, path, duration, status_code, size, fail_at, cont, snap) ==
    /\ obs' = [obs EXCEPT ![w] =
                 [method |-> method, path |-> path, duration |-> duration,
                  status_code |-> status_code, response_size |-> size,
                  error_type |-> ErrorType(status_code), fail_at |-> fail_at,
                  failed |-> FALSE, logged |-> FALSE, read |-> 0,
                  cont |-> cont,
                  pre |-> IF snap THEN Snapshot ELSE NoSnapshot]]
    /\ pc' = [pc EXCEPT ![w] = "obs_latency"]

\* metrics.py:194: self.request_latency.labels(method, path).observe(duration)
observe_request_latency(w) ==
    /\ pc[w] = "obs_latency"
    /\ IF obs[w].fail_at = "latency"
       THEN /\ pc' = [pc EXCEPT ![w] = ExceptHandler]
            /\ obs' = [obs EXCEPT ![w].failed = TRUE]
            /\ UNCHANGED request_latency
       ELSE /\ request_latency' =
                 LabelsObserve(request_latency, <<obs[w].method, obs[w].path>>,
                               _metrics_instance.histogram_buckets,
                               obs[w].duration)
            /\ pc' = [pc EXCEPT ![w] = "obs_count"]
            /\ UNCHANGED obs
    /\ UNCHANGED <<request_count, requests_in_progress, response_size,
                   value_locks, gop, ncalls, nlost, ninc, ndec>>
    /\ UNCHANGED <<regVars, adapterVars, setupVars, normVars>>

CountKey(w) ==
    <<obs[w].method, obs[w].path, str(obs[w].status_code), obs[w].error_type>>

\* metrics.py:195-197: self.request_count.labels(...).inc(): the child's
\* mutex is taken and its value read
observe_request_count(w) ==
    /\ pc[w] = "obs_count"
    /\ IF obs[w].fail_at = "count"
       THEN /\ pc' = [pc EXCEPT ![w] = ExceptHandler]
            /\ obs' = [obs EXCEPT ![w].failed = TRUE]
            /\ UNCHANGED value_locks
       ELSE /\ ValueLockFree(value_locks, <<"count", CountKey(w)>>)
            /\ value_locks' = value_locks \cup {<<"count", CountKey(w)>>}
            /\ obs' = [obs EXCEPT ![w].read =
                         LabelsGet(request_count, CountKey(w))]
            /\ pc' = [pc EXCEPT ![w] = "obs_count_store"]
    /\ UNCHANGED <<request_latency, request_count, requests_in_progress,
                   response_size, gop, ncalls, nlost, ninc, ndec>>
    /\ UNCHANGED <<regVars, adapterVars, setupVars, normVars>>

\* An increment that forgets the value read.
CounterIncReset(value) == 1

\* Counter.inc(): the amount is 1
CounterInc(value) == value + 1

\* ... the value read plus 1 is stored and the mutex released
observe_request_count_store(w) ==
    /\ pc[w] = "obs_count_store"
    /\ request_count' =
         LabelsSet(request_count, CountKey(w), CounterInc(obs[w].read))
    /\ value_locks' = value_locks \ {<<"count", CountKey(w)>>}
    /\ obs' = [obs EXCEPT ![w].read = 0]
    /\ pc' = [pc EXCEPT ![w] = "obs_size"]
    /\ UNCHANGED <<request_latency, requests_in_progress, response_size,
                   gop, ncalls, nlost, ninc, ndec>>
    /\ UNCHANGED <<regVars, adapterVars, setupVars, normVars>>

\* metrics.py:200-201: if response_size is not None:
\*     self.response_size.labels(method, path).observe(response_size)
observe_request_size(w) ==
    /\ pc[w] = "obs_size"
    /\ IF ~SizeProvided(obs[w].response_size)
       THEN /\ pc' = [pc EXCEPT ![w] = "obs_done"]
            /\ UNCHANGED <<response_size, obs>>
       ELSE IF obs[w].fail_at = "size"
       THEN /\ pc' = [pc EXCEPT ![w] = ExceptHandler]
            /\ obs' = [obs EXCEPT ![w].failed = TRUE]
            /\ UNCHANGED response_size
       ELSE /\ response_size' =
                 LabelsObserve(response_size, <<obs[w].method, obs[w].path>>,
                               _metrics_instance.response_size_buckets,
                               obs[w].response_size)
            /\ pc' = [pc EXCEPT ![w] = "obs_done"]
            /\ UNCHANGED obs
    /\ UNCHANGED <<request_latency, request_count, requests_in_progress,
                   value_locks, gop, ncalls, nlost, ninc, ndec>>
    /\ UNCHANGED <<regVars, adapterVars, setupVars, normVars>>

\* metrics.py:202-203: except Exception as e: logger.error(...)
observe_request_except(w) ==
    /\ pc[w] = "obs_except"
    /\ obs' = [obs EXCEPT ![w].logged = TRUE]
    /\ pc' = [pc EXCEPT ![w] = "obs_done"]
    /\ UNCHANGED <<metricVars, gop, ncalls, nlost, ninc, ndec>>
    /\ UNCHANGED <<regVars, adapterVars, setupVars, normVars>>

\* observe_request returns None to its caller
observe_request_return(w) ==
    /\ pc[w] = "obs_done"
    /\ pc' = [pc EXCEPT ![w] = obs[w].cont]
    /\ ncalls' = [ncalls EXCEPT ![w] = @ + 1]
    /\ nlost' = IF obs[w].fail_at \in {"latency", "count"}
                THEN nlost + 1 ELSE nlost
    /\ obs' = [obs EXCEPT ![w].pre = NoSnapshot]
    /\ UNCHANGED <<metricVars, gop, ninc, ndec>>
    /\ UNCHANGED <<regVars, adapterVars, setupVars, normVars>>

(***************************************************************************)
(* RLMetrics.inc_in_progress / dec_in_progress (metrics.py:222-228).       *)
(***************************************************************************)
\* self.requests_in_progress.labels(method=method).inc() or .dec() is
\* entered by worker w (amount 1 or -1), to continue at cont.
EnterInProgress(w, method, amount, cont) ==
    /\ gop' = [gop EXCEPT ![w] =
                 [method |-> method, amount |-> amount, read |-> 0,
                  cont |-> cont]]
    /\ pc' = [pc EXCEPT ![w] = "gauge_lock"]

\* metrics.py:224, 228: the child's mutex is taken and its value read
in_progress_lock(w) ==
    /\ pc[w] = "gauge_lock"
    /\ ValueLockFree(value_locks, <<"in_progress", gop[w].method>>)
    /\ value_locks' = value_locks \cup {<<"in_progress", gop[w].method>>}
    /\ gop' = [gop EXCEPT ![w].read =
                 LabelsGet(requests_in_progress, gop[w].method)]
    /\ pc' = [pc EXCEPT ![w] = "gauge_store"]
    /\ UNCHANGED <<request_latency, request_count, requests_in_progress,
                   response_size, obs, ncalls, nlost, ninc, ndec>>
    /\ UNCHANGED <<regVars, adapterVars, setupVars, normVars>>

\* ... the value read plus the amount is stored, the mutex released and
\* the call returns
in_progress_store(w) ==
    /\ pc[w] = "gauge_store"
    /\ requests_in_progress' =
         LabelsSet(requests_in_progress, gop[w].method,
                   gop[w].read + gop[w].amount)
    /\ value_locks' = value_locks \ {<<"in_progress", gop[w].method>>}
    /\ pc' = [pc EXCEPT ![w] = gop[w].cont]
    /\ ninc' = IF gop[w].amount = 1
               THEN [ninc EXCEPT ![gop[w].method] = @ + 1] ELSE ninc
    /\ ndec' = IF gop[w].amount = -1
               THEN [ndec EXCEPT ![gop[w].method] = @ + 1] ELSE ndec
    /\ gop' = [gop EXCEPT ![w].read = 0]
    /\ UNCHANGED <<request_latency, request_count, response_size, obs,
                   ncalls, nlost>>
    /\ UNCHANGED <<regVars, adapterVars, setupVars, normVars>>

(***************************************************************************)
(* The adapters: flask_middleware.py and fastapi_middleware.py.            *)
(*                                                                         *)
(* The web framework is an external collaborator, modelled at the hooks    *)
(* the adapters use.  Flask runs the before_request functions, then the    *)
(* view, then the after_request functions on the response; an unhandled    *)
(* exception of the view becomes a 500 response that passes through the    *)
(* after_request functions, unless the application propagates exceptions   *)
(* (PROPAGATE_EXCEPTIONS, the default in debug and testing mode): then the *)
(* exception leaves the application and no after_request function runs.    *)
(* Starlette calls RLMetricsMiddleware.dispatch, and call_next either      *)
(* returns the response (error responses included) or raises the           *)
(* handler's unhandled exception.                                          *)
(***************************************************************************)

NoHeader == <<>>       \* headers.get("Content-Length") is None (or "")

\* exclude_paths and path_normalizer are optional arguments.
NotGiven == [given |-> FALSE]

Given(v) == [given |-> TRUE, value |-> v]

\* flask_middleware.py:89
FlaskDefaultExclude ==
    {"/health", "/healthz", "/metrics", "/readiness", "/liveness"}

\* fastapi_middleware.py:35-40
FastAPIDefaultExclude == {"/health", "/metrics", "/docs", "/openapi.json"}

\* flask_middleware.py:88-89: if exclude_paths is None: exclude_paths = [...]
FlaskExcludePaths(exclude_paths) ==
    IF ~exclude_paths.given THEN FlaskDefaultExclude ELSE exclude_paths.value

\* fastapi_middleware.py:35: self.exclude_paths = exclude_paths or [...]
FastAPIExcludePaths(exclude_paths) ==
    IF ~exclude_paths.given \/ exclude_paths.value = {}
    THEN FastAPIDefaultExclude ELSE exclude_paths.value

\* enable_metrics(app, path_normalizer=..., exclude_paths=...) of the
\* framework's adapter (flask_middleware.py:78-166,
\* fastapi_middleware.py:141-166, 25-40).  installs counts the hook pairs
\* (Flask) or middleware instances (FastAPI) the application holds: each
\* call registers one more (flask_middleware.py:97, 104;
\* fastapi_middleware.py:157-162).
enable_metrics(framework, path_normalizer, exclude_paths, propagate) ==
    [framework |-> framework,
     installs |-> IF framework = "none" THEN 0 ELSE 1,
     path_normalizer |-> path_normalizer,
     exclude_option |-> exclude_paths,
     exclude_paths |-> IF framework = "flask"
                       THEN FlaskExcludePaths(exclude_paths)
                       ELSE FastAPIExcludePaths(exclude_paths),
     propagate_exceptions |-> propagate]

\* The paths requested.
RequestPaths == {"/api/users", "/api/users/7", "/health"}

\* What get_precise_time() - start comes to, in milliseconds.
Durations == {30}

RaiseMark == "<raise>"

\* A normalizer is a function on paths; it raises where it maps to RaiseMark.
NormalizeIds ==
    [p \in RequestPaths |->
        IF p = "/api/users/7" THEN "/api/users/:id" ELSE p]

NormalizeRaising ==
    [p \in RequestPaths |-> IF p = "/api/users/7" THEN RaiseMark ELSE p]

\* A normalizer call without the except clause's fallback: the label is
\* whatever the failed call left, and nothing is logged.
NormalizeWithoutFallback(path_normalizer, path) ==
    IF ~path_normalizer.given THEN [path |-> path, warned |-> FALSE]
    ELSE [path |-> path_normalizer.value[path], warned |-> FALSE]

\* flask_middleware.py:126-130, fastapi_middleware.py:63-67:
\*   if path_normalizer: try: path = path_normalizer(path)
\*                       except Exception: logger.warning(...)
Normalize(path_normalizer, path) ==
    IF ~path_normalizer.given THEN [path |-> path, warned |-> FALSE]
    ELSE IF path_normalizer.value[path] = RaiseMark
         THEN [path |-> path, warned |-> TRUE]
         ELSE [path |-> path_normalizer.value[path], warned |-> FALSE]

DigitChars == {"0", "1", "2", "3", "4", "5", "6", "7", "8", "9"}

DigitValue(c) == CHOOSE d \in 0..9 : Digit(d) = c

\* int(content_length) of a header made of the characters cs: its value,
\* or ValueError (ok = FALSE) when a character is no digit
RECURSIVE ParseInt(_)
ParseInt(cs) ==
    IF Len(cs) = 0 THEN [ok |-> FALSE, value |-> 0]
    ELSE IF cs[Len(cs)] \notin DigitChars THEN [ok |-> FALSE, value |-> 0]
    ELSE IF Len(cs) = 1 THEN [ok |-> TRUE, value |-> DigitValue(cs[1])]
    ELSE LET rest == ParseInt(SubSeq(cs, 1, Len(cs) - 1))
         IN  [ok |-> rest.ok,
              value |-> rest.value * 10 + DigitValue(cs[Len(cs)])]

\* flask_middleware.py:137-145
FlaskResponseSize(content_length, body_len) ==
    IF content_length # NoHeader
    THEN IF ParseInt(content_length).ok
         THEN ParseInt(content_length).value ELSE NoSize
    ELSE IF body_len > 0 THEN body_len ELSE NoSize

\* fastapi_middleware.py:70-76
FastAPIResponseSize(content_length, body_len) ==
    IF content_length # NoHeader
    THEN IF ParseInt(content_length).ok
         THEN ParseInt(content_length).value ELSE NoSize
    ELSE NoSize

NoReq == [method |-> "", path |-> "", handler |-> "", status |-> 0,
          content_length |-> NoHeader, body_len |-> 0, fail_at |-> "none",
          has_start |-> FALSE, response |-> FALSE, warned |-> FALSE,
          incs |-> 0, decs |-> 0, observes |-> 0, outcome |-> "",
          before_run |-> 0, after_run |-> 0, depth |-> 0]

\* A request arrives at worker w: its method and path, what the handler
\* does with it ("response": the view, or the framework's error handling,
\* produces a response with this status, header and body; "raise": the view
\* raises an exception nothing handles; "short_circuit": a hook of the
\* application that runs before the adapter's answers the request with
\* this response), and where observe_request fails.
Arrive(w, method, path, handler, status, content_length, body_len, fail_at) ==
    /\ pc[w] = "idle"
    /\ nreqs < MaxRequests
    /\ nreqs' = nreqs + 1
    /\ req' = [req EXCEPT ![w] =
                 [NoReq EXCEPT !.method = method, !.path = path,
                               !.handler = handler, !.status = status,
                               !.content_length = content_length,
                               !.body_len = body_len, !.fail_at = fail_at]]

(***************************************************************************)
(* Flask (flask_middleware.py:97-159).                                     *)
(***************************************************************************)
flask_request(w, method, path, handler, status, content_length, body_len, fail_at) ==
    /\ app.framework = "flask"
    /\ Arrive(w, method, path, handler, status, content_length, body_len,
              fail_at)
    /\ pc' = [pc EXCEPT ![w] = "flask_before"]
    /\ UNCHANGED <<app, metricVars, obs, gop, ncalls, nlost, ninc, ndec>>
    /\ UNCHANGED <<regVars, setupVars, normVars>>

\* A before_request function registered before enable_metrics was called
\* returns a response: Flask stops running the before_request functions,
\* skips the view and hands the response to the after_request functions.
flask_before_request_short_circuit(w) ==
    /\ pc[w] = "flask_before"
    /\ req[w].handler = "short_circuit"
    /\ req' = [req EXCEPT ![w].response = TRUE]
    /\ pc' = [pc EXCEPT ![w] = "flask_after"]
    /\ UNCHANGED <<app, nreqs, metricVars, obs, gop, ncalls, nlost, ninc,
                   ndec>>
    /\ UNCHANGED <<regVars, setupVars, normVars>>

\* flask_middleware.py:97-102: before_request_handler
before_request_handler(w) ==
    /\ pc[w] = "flask_before"
    /\ req[w].handler # "short_circuit"
    /\ req' = [req EXCEPT ![w].has_start = TRUE, ![w].incs = @ + 1,
                          ![w].before_run = @ + 1]
    /\ EnterInProgress(w, req[w].method, 1,
                       IF req[w].before_run + 1 < app.installs
                       THEN "flask_before" ELSE "flask_view")
    /\ UNCHANGED <<app, nreqs, metricVars, obs, ncalls, nlost, ninc, ndec>>
    /\ UNCHANGED <<regVars, setupVars, normVars>>

\* Flask dispatches the request to the view.
flask_view(w) ==
    /\ pc[w] = "flask_view"
    /\ IF req[w].handler = "response"
       THEN /\ req' = [req EXCEPT ![w].response = TRUE]
            /\ pc' = [pc EXCEPT ![w] = "flask_after"]
       ELSE IF app.propagate_exceptions
       THEN /\ req' = [req EXCEPT ![w].outcome = "exception"]
            /\ pc' = [pc EXCEPT ![w] = "req_done"]
       ELSE /\ req' = [req EXCEPT ![w].response = TRUE, ![w].status = 500,
                                  ![w].content_length = NoHeader]
            /\ pc' = [pc EXCEPT ![w] = "flask_after"]
    /\ UNCHANGED <<app, nreqs, metricVars, obs, gop, ncalls, nlost, ninc,
                   ndec>>
    /\ UNCHANGED <<regVars, setupVars, normVars>>

\* flask_middleware.py:104-111: after_request_handler, the decrement
after_request_handler(w) ==
    /\ pc[w] = "flask_after"
    /\ req' = [req EXCEPT ![w].decs = @ + 1]
    /\ EnterInProgress(w, req[w].method, -1, "flask_after_record")
    /\ UNCHANGED <<app, nreqs, metricVars, obs, ncalls, nlost, ninc, ndec>>
    /\ UNCHANGED <<regVars, setupVars, normVars>>

\* flask_middleware.py:113-155: after_request_handler, up to the call of
\* observe_request
after_request_handler_record(w) ==
    /\ pc[w] = "flask_after_record"
    /\ LET n == Normalize(app.path_normalizer, req[w].path)
       IN  IF ~req[w].has_start \/ n.path \in app.exclude_paths
           THEN /\ req' = [req EXCEPT ![w].outcome = "response",
                                      ![w].warned = req[w].has_start /\ n.warned,
                                      ![w].after_run = @ + 1]
                /\ pc' = [pc EXCEPT ![w] =
                             IF req[w].after_run + 1 < app.installs
                             THEN "flask_after" ELSE "req_done"]
                /\ UNCHANGED obs
           ELSE /\ req' = [req EXCEPT ![w].observes = @ + 1,
                                      ![w].warned = n.warned]
                /\ \E duration \in Durations :
                      EnterObserveRequest(
                          w, req[w].method, n.path, duration, req[w].status,
                          FlaskResponseSize(req[w].content_length,
                                            req[w].body_len),
                          req[w].fail_at, "flask_after_return", FALSE)
    /\ UNCHANGED <<app, nreqs, metricVars, gop, ncalls, nlost, ninc, ndec>>
    /\ UNCHANGED <<regVars, setupVars, normVars>>

\* flask_middleware.py:156-159: return response; Flask goes on to the next
\* after_request function
after_request_handler_return(w) ==
    /\ pc[w] = "flask_after_return"
    /\ req' = [req EXCEPT ![w].outcome = "response", ![w].after_run = @ + 1]
    /\ pc' = [pc EXCEPT ![w] = IF req[w].after_run + 1 < app.installs
                               THEN "flask_after" ELSE "req_done"]
    /\ UNCHANGED <<app, nreqs, metricVars, obs, gop, ncalls, nlost, ninc,
                   ndec>>
    /\ UNCHANGED <<regVars, setupVars, normVars>>

(***************************************************************************)
(* FastAPI (fastapi_middleware.py:42-93).                                  *)
(***************************************************************************)
fastapi_request(w, method, path, handler, status, content_length, body_len, fail_at) ==
    /\ app.framework = "fastapi"
    /\ Arrive(w, method, path, handler, status, content_length, body_len,
              fail_at)
    /\ pc' = [pc EXCEPT ![w] = "fastapi_dispatch"]
    /\ UNCHANGED <<app, metricVars, obs, gop, ncalls, nlost, ninc, ndec>>
    /\ UNCHANGED <<regVars, setupVars, normVars>>

\* A middleware added after enable_metrics was called (it wraps
\* RLMetricsMiddleware) answers the request itself: dispatch is not called.
fastapi_outer_short_circuit(w) ==
    /\ pc[w] = "fastapi_dispatch"
    /\ req[w].handler = "short_circuit"
    /\ req' = [req EXCEPT ![w].response = TRUE, ![w].outcome = "response"]
    /\ pc' = [pc EXCEPT ![w] = "req_done"]
    /\ UNCHANGED <<app, nreqs, metricVars, obs, gop, ncalls, nlost, ninc,
                   ndec>>
    /\ UNCHANGED <<regVars, setupVars, normVars>>

\* fastapi_middleware.py:44-52: dispatch, up to the handler
dispatch(w) ==
    /\ pc[w] = "fastapi_dispatch"
    /\ req[w].handler # "short_circuit"
    /\ IF req[w].path \in app.exclude_paths
       THEN /\ pc' = [pc EXCEPT ![w] = "fastapi_excluded"]
            /\ UNCHANGED <<req, gop>>
       ELSE /\ req' = [req EXCEPT ![w].incs = @ + 1]
            /\ EnterInProgress(w, req[w].method, 1, "fastapi_call_next")
    /\ UNCHANGED <<app, nreqs, metricVars, obs, ncalls, nlost, ninc, ndec>>
    /\ UNCHANGED <<regVars, setupVars, normVars>>

\* fastapi_middleware.py:46: return await call_next(request); call_next
\* enters the next RLMetricsMiddleware instance when there is one
dispatch_excluded(w) ==
    /\ pc[w] = "fastapi_excluded"
    /\ IF req[w].depth + 1 < app.installs
       THEN /\ req' = [req EXCEPT ![w].depth = @ + 1]
            /\ pc' = [pc EXCEPT ![w] = "fastapi_dispatch"]
       ELSE /\ req' = [req EXCEPT
                         ![w].response = (req[w].handler = "response"),
                         ![w].outcome = IF req[w].handler = "response"
                                        THEN "response" ELSE "exception"]
            /\ pc' = [pc EXCEPT ![w] = "req_done"]
    /\ UNCHANGED <<app, nreqs, metricVars, obs, gop, ncalls, nlost, ninc,
                   ndec>>
    /\ UNCHANGED <<regVars, setupVars, normVars>>

\* fastapi_middleware.py:54-56, 91-93: response = await call_next(request);
\* call_next enters the next RLMetricsMiddleware instance when there is
\* one, the handler otherwise; when it raises, the finally block decrements
\* and the exception goes on to the caller of this dispatch
dispatch_call_next(w) ==
    /\ pc[w] = "fastapi_call_next"
    /\ IF req[w].outcome # "exception" /\ req[w].depth + 1 < app.installs
       THEN /\ req' = [req EXCEPT ![w].depth = @ + 1]
            /\ pc' = [pc EXCEPT ![w] = "fastapi_dispatch"]
            /\ UNCHANGED gop
       ELSE IF req[w].outcome # "exception" /\ req[w].handler = "response"
       THEN /\ req' = [req EXCEPT ![w].response = TRUE]
            /\ pc' = [pc EXCEPT ![w] = "fastapi_record"]
            /\ UNCHANGED gop
       ELSE /\ req' = [req EXCEPT ![w].decs = @ + 1,
                                  ![w].outcome = "exception",
                                  ![w].depth = IF @ > 0 THEN @ - 1 ELSE 0]
            /\ EnterInProgress(w, req[w].method, -1,
                               IF req[w].depth > 0
                               THEN "fastapi_call_next" ELSE "req_done")
    /\ UNCHANGED <<app, nreqs, metricVars, obs, ncalls, nlost, ninc, ndec>>
    /\ UNCHANGED <<regVars, setupVars, normVars>>

\* fastapi_middleware.py:58-86: dispatch, up to the call of observe_request
dispatch_record(w) ==
    /\ pc[w] = "fastapi_record"
    /\ LET n == Normalize(app.path_normalizer, req[w].path)
       IN  /\ req' = [req EXCEPT ![w].observes = @ + 1,
                                 ![w].warned = n.warned]
           /\ \E duration \in Durations :
                 EnterObserveRequest(
                     w, req[w].method, n.path, duration, req[w].status,
                     FastAPIResponseSize(req[w].content_length,
                                         req[w].body_len),
                     req[w].fail_at, "fastapi_finally", FALSE)
    /\ UNCHANGED <<app, nreqs, metricVars, gop, ncalls, nlost, ninc, ndec>>
    /\ UNCHANGED <<regVars, setupVars, normVars>>

\* fastapi_middleware.py:90-93: return response; finally: dec_in_progress;
\* the response goes to the caller of this dispatch
dispatch_finally(w) ==
    /\ pc[w] = "fastapi_finally"
    /\ req' = [req EXCEPT ![w].decs = @ + 1,
                          ![w].outcome = IF req[w].depth > 0
                                         THEN "" ELSE "response",
                          ![w].depth = IF @ > 0 THEN @ - 1 ELSE 0]
    /\ EnterInProgress(w, req[w].method, -1,
                       IF req[w].depth > 0
                       THEN "fastapi_record" ELSE "req_done")
    /\ UNCHANGED <<app, nreqs, metricVars, obs, ncalls, nlost, ninc, ndec>>
    /\ UNCHANGED <<regVars, setupVars, normVars>>

\* The request is over: the response, or the exception, has left the
\* application.
request_done(w) ==
    /\ pc[w] = "req_done"
    /\ pc' = [pc EXCEPT ![w] = "idle"]
    /\ req' = [req EXCEPT ![w] = NoReq]
    /\ UNCHANGED <<app, nreqs, metricVars, obs, gop, ncalls, nlost, ninc,
                   ndec>>
    /\ UNCHANGED <<regVars, setupVars, normVars>>

(***************************************************************************)
(* Callers of the RLMetrics methods (manual instrumentation, the tests).   *)
(***************************************************************************)
Paths == {"/api/users", "/api/items"}

FailAts == {"none", "latency", "count", "size"}

\* worker w calls metrics.observe_request(...), at most max times
api_observe_request(w, max, method, path, duration, status_code, size, fail_at, snap) ==
    /\ pc[w] = "idle"
    /\ ncalls[w] < max
    /\ EnterObserveRequest(w, method, path, duration, status_code, size,
                           fail_at, "idle", snap)
    /\ UNCHANGED <<metricVars, gop, ncalls, nlost, ninc, ndec>>
    /\ UNCHANGED <<regVars, adapterVars, setupVars, normVars>>

\* in_progress calls made and being made
InProgressCalls ==
    ninc["GET"] + ninc["POST"] + ndec["GET"] + ndec["POST"]
    + Cardinality({w \in Workers : pc[w] \in {"gauge_lock", "gauge_store"}})

\* worker w calls metrics.inc_in_progress(method)
api_inc_in_progress(w, method) ==
    /\ pc[w] = "idle"
    /\ InProgressCalls < MaxGaugeCalls
    /\ EnterInProgress(w, method, 1, "idle")
    /\ UNCHANGED <<metricVars, obs, ncalls, nlost, ninc, ndec>>
    /\ UNCHANGED <<regVars, adapterVars, setupVars, normVars>>

\* worker w calls metrics.dec_in_progress(method)
api_dec_in_progress(w, method) ==
    /\ pc[w] = "idle"
    /\ InProgressCalls < MaxGaugeCalls
    /\ EnterInProgress(w, method, -1, "idle")
    /\ UNCHANGED <<metricVars, obs, ncalls, nlost, ninc, ndec>>
    /\ UNCHANGED <<regVars, adapterVars, setupVars, normVars>>

(***************************************************************************)
(* RLMetrics.track_in_progress (metrics.py:205-220): the context manager   *)
(* of Gauge.track_inprogress(), whose __enter__ calls inc() and whose      *)
(* __exit__ calls dec().                                                   *)
(***************************************************************************)
\* The ways the body of the with block is left.
BodyExits == {"normal", "exception", "return"}

TrackBody(exit) == "track_body_" \o exit

TrackBodies == { TrackBody(exit) : exit \in BodyExits }

\* An __exit__ that runs only when the body completes normally.
ExitRunsOnSuccessOnly(body_pc) == body_pc = TrackBody("normal")

\* The with statement calls __exit__ however the body is left.
ExitRuns(body_pc) == body_pc \in TrackBodies

\* blocks entered and being entered
TrackCalls ==
    ninc["GET"] + ninc["POST"]
    + Cardinality({w \in Workers :
                     pc[w] \in {"gauge_lock", "gauge_store"}
                     /\ gop[w].amount = 1})

\* worker w executes: with metrics.track_in_progress(method): <body>;
\* __enter__ increments
api_track_in_progress(w, method, exit) ==
    /\ pc[w] = "idle"
    /\ TrackCalls < MaxTracks
    /\ EnterInProgress(w, method, 1, TrackBody(exit))
    /\ UNCHANGED <<metricVars, obs, ncalls, nlost, ninc, ndec>>
    /\ UNCHANGED <<regVars, adapterVars, setupVars, normVars>>

\* the body is left: __exit__ decrements
track_in_progress_exit(w) ==
    /\ pc[w] \in TrackBodies
    /\ IF ExitRuns(pc[w])
       THEN EnterInProgress(w, gop[w].method, -1, "idle")
       ELSE /\ pc' = [pc EXCEPT ![w] = "idle"]
            /\ UNCHANGED gop
    /\ UNCHANGED <<metricVars, obs, ncalls, nlost, ninc, ndec>>
    /\ UNCHANGED <<regVars, adapterVars, setupVars, normVars>>

(***************************************************************************)
(* normalize_api_paths (flask_middleware.py:169-200).  A path is the       *)
(* sequence of its characters; each re.sub is computed as the regular      *)
(* expression engine computes it, scanning from the left for the leftmost  *)
(* match and continuing after it.                                          *)
(***************************************************************************)
LowerChars ==
    {"a", "b", "c", "d", "e", "f", "g", "h", "i", "j", "k", "l", "m", "n",
     "o", "p", "q", "r", "s", "t", "u", "v", "w", "x", "y", "z"}

UpperChars ==
    {"A", "B", "C", "D", "E", "F", "G", "H", "I", "J", "K", "L", "M", "N",
     "O", "P", "Q", "R", "S", "T", "U", "V", "W", "X", "Y", "Z"}

\* [0-9a-f] under re.IGNORECASE
HexChars ==
    DigitChars \cup {"a", "b", "c", "d", "e", "f"}
               \cup {"A", "B", "C", "D", "E", "F"}

\* [a-zA-Z0-9]
AlnumChars == LowerChars \cup UpperChars \cup DigitChars

IdMark == <<"/", ":", "i", "d">>

UuidMark == <<"/", ":", "u", "u", "i", "d">>

FilenameMark == <<"/", ":", "f", "i", "l", "e", "n", "a", "m", "e">>

\* the length of the longest prefix of s made of digits: what \d+ takes
RECURSIVE LeadingDigits(_)
LeadingDigits(s) ==
    IF s # <<>> /\ s[1] \in DigitChars
    THEN 1 + LeadingDigits(Tail(s)) ELSE 0

\* The position of the first slash of s after its first character, one
\* past its end when there is none: both patterns below begin with a slash,
\* so the scan copies the characters before that position unchanged.
NextSlash(s) ==
    LET slashes == { i \in 2..Len(s) : s[i] = "/" }
    IN  IF slashes = {} THEN Len(s) + 1
        ELSE CHOOSE i \in slashes : \A j \in slashes : i <= j

\* flask_middleware.py:187: re.sub(r"/\d+", "/:id", path)
RECURSIVE SubNumericIds(_)
SubNumericIds(s) ==
    IF s = <<>> THEN <<>>
    ELSE IF s[1] = "/" /\ LeadingDigits(Tail(s)) >= 1
    THEN IdMark \o SubNumericIds(SubSeq(s, LeadingDigits(Tail(s)) + 2, Len(s)))
    ELSE SubSeq(s, 1, NextSlash(s) - 1)
            \o SubNumericIds(SubSeq(s, NextSlash(s), Len(s)))

\* The offsets of the hyphens in 8-4-4-4-12.
UuidHyphens == {9, 14, 19, 24}

UuidLen == 36

\* the pattern /[0-9a-f]{8}-[0-9a-f]{4}-[0-9a-f]{4}-[0-9a-f]{4}-[0-9a-f]{12}
\* matches at the start of s
UuidMatchesAt(s) ==
    /\ Len(s) >= UuidLen + 1
    /\ s[1] = "/"
    /\ \A i \in 1..UuidLen :
          IF i \in UuidHyphens THEN s[i + 1] = "-" ELSE s[i + 1] \in HexChars

\* flask_middleware.py:190-195: re.sub(<uuid>, "/:uuid", path,
\* flags=re.IGNORECASE)
RECURSIVE SubUuids(_)
SubUuids(s) ==
    IF s = <<>> THEN <<>>
    ELSE IF UuidMatchesAt(s)
    THEN UuidMark \o SubUuids(SubSeq(s, UuidLen + 2, Len(s)))
    ELSE SubSeq(s, 1, NextSlash(s) - 1)
            \o SubUuids(SubSeq(s, NextSlash(s), Len(s)))

\* the pattern /[^/]+\.[a-zA-Z0-9]+$ matches s from position p on
FilenameMatchesAt(s, p) ==
    /\ s[p] = "/"
    /\ \A i \in (p + 1)..Len(s) : s[i] # "/"
    /\ \E k \in (p + 2)..(Len(s) - 1) :
          /\ s[k] = "."
          /\ \A i \in (k + 1)..Len(s) : s[i] \in AlnumChars

\* flask_middleware.py:198: re.sub(r"/[^/]+\.[a-zA-Z0-9]+$", "/:filename",
\* path)
SubFilename(s) ==
    LET starts == { p \in 1..Len(s) : FilenameMatchesAt(s, p) }
    IN  IF starts = {} THEN s
        ELSE LET p == CHOOSE q \in starts : \A r \in starts : q <= r
             IN  SubSeq(s, 1, p - 1) \o FilenameMark

\* flask_middleware.py:184-200
normalize_api_paths(path) == SubFilename(SubUuids(SubNumericIds(path)))

\* No call has returned yet.
NotNormalized == <<"<none>">>

\* normalized = normalize_api_paths(raw_path)
normalize_api_paths_call ==
    /\ normalized = NotNormalized
    /\ normalized' = normalize_api_paths(raw_path)
    /\ UNCHANGED raw_path
    /\ UNCHANGED <<regVars, metricVars, workerVars, adapterVars, setupVars>>

(***************************************************************************)
(* Setup: start_metrics_server (metrics.py:285-313), enable_metrics of the *)
(* adapters (flask_middleware.py:78-166, fastapi_middleware.py:141-166)    *)
(* and the auto-detecting enable_metrics (__init__.py:65-91).              *)
(***************************************************************************)
\* The text of an OSError, as the words of str(e).
AddressInUseText == <<"Address", "already", "in", "use">>

\* str(e) of the OSError start_http_server raises: for a port that is in
\* use, "[Errno 98] Address already in use" on POSIX systems and
\* "[WinError 10048] Only one usage of each socket address
\* (protocol/network address/port) is normally permitted" on Windows; for a
\* port this process may not bind, "[Errno 13] Permission denied".
OSErrorText(os, port_state) ==
    IF port_state = "denied"
    THEN <<"[Errno 13]", "Permission", "denied">>
    ELSE IF os = "posix"
    THEN <<"[Errno 98]">> \o AddressInUseText
    ELSE <<"[WinError 10048]", "Only", "one", "usage", "of", "each",
           "socket", "address", "(protocol/network address/port)", "is",
           "normally", "permitted">>

\* part in text (metrics.py:309)
Contains(text, part) ==
    \E i \in 1..(Len(text) - Len(part) + 1) :
        SubSeq(text, i, i + Len(part) - 1) = part

\* The port as start_http_server finds it: a server this process started
\* holds it too.
PortState(port_state, server_state) ==
    IF server_state = "started" THEN "in_use" ELSE port_state

\* metrics.py:304-313: start_metrics_server(port)
start_metrics_server(os, port_state, server_state) ==
    LET found == PortState(port_state, server_state)
    IN  IF found = "free"
        THEN [raised |-> FALSE, server |-> "started", warnings |-> 0,
              errors |-> 0]
        ELSE IF Contains(OSErrorText(os, found), AddressInUseText)
        THEN [raised |-> FALSE, server |-> server_state, warnings |-> 1,
              errors |-> 0]
        ELSE [raised |-> TRUE, server |-> server_state, warnings |-> 0,
              errors |-> 1]

\* The attributes an application object may have.
AppAttributes == {"before_request", "after_request", "add_middleware"}

\* A detection that takes any object with before_request for Flask.
DetectFrameworkByOneHook(attrs) ==
    IF "before_request" \in attrs THEN "flask"
    ELSE IF "add_middleware" \in attrs THEN "fastapi"
    ELSE "unsupported"

\* __init__.py:84-91
DetectFramework(attrs) ==
    IF "before_request" \in attrs /\ "after_request" \in attrs THEN "flask"
    ELSE IF "add_middleware" \in attrs THEN "fastapi"
    ELSE "unsupported"

\* get_metrics_registry(args) called by the one thread that sets up the
\* application (metrics.py:262-282)
GetMetricsRegistry(args) ==
    IF FirstCheck(_metrics_instance) /\ SecondCheck(_metrics_instance)
    THEN LET r == RLMetrics_init(registered, ctorRuns + 1,
                                 ResolveNamespace(args.namespace, environ),
                                 args.histogram_buckets,
                                 args.response_size_buckets)
         IN  [built |-> TRUE, raised |-> r.raised, registered |-> r.registered,
              instance |-> r.self]
    ELSE [built |-> FALSE, raised |-> FALSE, registered |-> registered,
          instance |-> _metrics_instance]

NoSetupCall ==
    [n |-> 0, call |-> "", attrs |-> {}, outcome |-> "", error |-> "",
     returned |-> NoInstance, warnings |-> 0, errors |-> 0,
     found |-> "free",
     pre |-> [instance |-> NoInstance, server |-> "none",
              app |-> NoInstance, registered |-> {}]]

\* What a setup call finds: kept to compare with what it leaves.
SetupPre ==
    [instance |-> _metrics_instance, server |-> server, app |-> app,
     registered |-> registered]

\* The record of a setup call.
SetupCall(call, attrs, outcome, error, returned, warnings, errors) ==
    [n |-> setup.n + 1, call |-> call, attrs |-> attrs, outcome |-> outcome,
     error |-> error, returned |-> returned, warnings |-> warnings,
     errors |-> errors, found |-> PortState(port, server), pre |-> SetupPre]

\* enable_metrics(app, ...) of the adapter of framework
\* (flask_middleware.py:78-166; fastapi_middleware.py:141-166):
\* get_metrics_registry, then start_metrics_server inside try / except
\* OSError, then the hooks or the middleware are installed on app.
adapter_enable_metrics(framework, attrs, args, exclude_paths) ==
    LET g == GetMetricsRegistry(args)
        s == start_metrics_server(platform, port, server)
    IN  /\ registered' = g.registered
        /\ ctorRuns' = IF g.built THEN ctorRuns + 1 ELSE ctorRuns
        /\ IF g.raised
           THEN /\ ctorRaised' = ctorRaised + 1
                /\ setup' = SetupCall("enable_metrics", attrs, "raised",
                                      "construction", NoInstance, 0, 0)
                /\ UNCHANGED <<_metrics_instance, firstBuilt, server, app>>
           ELSE /\ _metrics_instance' = g.instance
                /\ firstBuilt' = IF g.built /\ firstBuilt = NoInstance
                                 THEN g.instance ELSE firstBuilt
                /\ server' = s.server
                /\ app' = [enable_metrics(framework, NotGiven,
                                          exclude_paths, FALSE)
                             EXCEPT !.installs =
                                 IF app.framework = framework
                                 THEN app.installs + 1 ELSE 1]
                /\ setup' = SetupCall("enable_metrics", attrs, "returned",
                                      "", g.instance,
                                      s.warnings
                                        + (IF s.raised THEN 1 ELSE 0),
                                      s.errors)
                /\ UNCHANGED ctorRaised

\* __init__.py:65-91: enable_metrics(app, **kwargs), app having the
\* attributes attrs
auto_enable_metrics(attrs, args, exclude_paths) ==
    /\ setup.n < MaxSetups
    /\ IF DetectFramework(attrs) = "unsupported"
       THEN /\ setup' = SetupCall("enable_metrics", attrs, "raised",
                                  "unsupported_framework", NoInstance, 0, 0)
            /\ UNCHANGED <<_metrics_instance, registered, ctorRuns,
                           ctorRaised, firstBuilt, server, app>>
       ELSE adapter_enable_metrics(DetectFramework(attrs), attrs, args,
                                   exclude_paths)
    /\ UNCHANGED <<_metrics_lock, environ, gpc, gargs, gnew, gret>>
    /\ UNCHANGED <<metricVars, workerVars, req, nreqs, platform, port,
                   normVars>>

\* the application calls start_metrics_server(port) itself
api_start_metrics_server ==
    /\ setup.n < MaxSetups
    /\ LET s == start_metrics_server(platform, port, server)
       IN  /\ server' = s.server
           /\ setup' = SetupCall("start_metrics_server", {},
                                 IF s.raised THEN "raised" ELSE "returned",
                                 IF s.raised THEN "oserror" ELSE "",
                                 NoInstance, s.warnings, s.errors)
    /\ UNCHANGED <<regVars, metricVars, workerVars, adapterVars, platform,
                   port, normVars>>

(***************************************************************************)
(* Initial states.                                                         *)
(***************************************************************************)
RegInit ==
    /\ _metrics_instance = NoInstance
    /\ _metrics_lock = NoThread
    /\ registered = {}
    /\ environ \in {"", "env"}
    /\ gpc = [t \in Threads |-> "idle"]
    /\ gargs = [t \in Threads |-> NoArgs]
    /\ gnew = [t \in Threads |-> NoInstance]
    /\ gret = [t \in Threads |-> NoInstance]
    /\ ctorRuns = 0
    /\ ctorRaised = 0
    /\ firstBuilt = NoInstance

\* No request has been handled and no method called.
MetricsInit ==
    /\ request_latency = NoChildren
    /\ request_count = NoChildren
    /\ requests_in_progress = NoChildren
    /\ response_size = NoChildren
    /\ value_locks = {}
    /\ pc = [w \in Workers |-> "idle"]
    /\ obs = [w \in Workers |-> NoObs]
    /\ gop = [w \in Workers |-> NoGop]
    /\ ncalls = [w \in Workers |-> 0]
    /\ nlost = 0
    /\ ninc = [m \in Methods |-> 0]
    /\ ndec = [m \in Methods |-> 0]

\* The bucket configurations of the instance observed: the defaults, and
\* bounds of 10, 50 and 100 ms.
ObservedBuckets == {NoBuckets, <<10, 50, 100>>}

\* The state after get_metrics_registry(histogram_buckets=hb) has built the
\* instance in an empty registry.
BuiltInit ==
    \E hb \in ObservedBuckets :
        LET r == RLMetrics_init({}, 1, "", hb, NoBuckets)
        IN  /\ _metrics_instance = r.self
            /\ registered = r.registered
            /\ firstBuilt = r.self
            /\ _metrics_lock = NoThread
            /\ environ = ""
            /\ gpc = [t \in Threads |-> "idle"]
            /\ gargs = [t \in Threads |-> NoArgs]
            /\ gnew = [t \in Threads |-> NoInstance]
            /\ gret = [t \in Threads |-> NoInstance]
            /\ ctorRuns = 1
            /\ ctorRaised = 0

\* No adapter is installed: the metrics are used directly.
NoApp == enable_metrics("none", NotGiven, NotGiven, FALSE)

NoAdapter ==
    /\ app = NoApp
    /\ req = [w \in Workers |-> NoReq]
    /\ nreqs = 0

\* The state after enable_metrics(app, ...) of an adapter: the framework,
\* whether the application propagates unhandled exceptions, and the
\* options given.
AppConfigs ==
    { enable_metrics("flask", NotGiven, NotGiven, FALSE),
      enable_metrics("flask", NotGiven, NotGiven, TRUE),
      enable_metrics("flask", Given(NormalizeIds), Given({"/api/users"}),
                     FALSE),
      enable_metrics("flask", Given(NormalizeRaising), NotGiven, FALSE),
      enable_metrics("fastapi", NotGiven, NotGiven, FALSE),
      enable_metrics("fastapi", Given(NormalizeIds), Given({"/api/users"}),
                     FALSE),
      enable_metrics("fastapi", Given(NormalizeRaising), NotGiven, FALSE) }

AdapterInit ==
    /\ app \in AppConfigs
    /\ req = [w \in Workers |-> NoReq]
    /\ nreqs = 0

(***************************************************************************)
(* Specifications.                                                         *)
(***************************************************************************)
\* No setup call is modelled: the port is free on a POSIX system.
NoSetup ==
    /\ platform = "posix"
    /\ port = "free"
    /\ server = "none"
    /\ setup = NoSetupCall

\* The environment a setup call may meet.
SetupEnv ==
    /\ platform \in {"posix", "windows"}
    /\ port \in {"free", "in_use", "denied"}
    /\ server = "none"
    /\ setup = NoSetupCall

\* normalize_api_paths is not called.
NoNormalize ==
    /\ raw_path = <<>>
    /\ normalized = NotNormalized

\* Threads calling get_metrics_registry.
Init == RegInit /\ MetricsInit /\ NoAdapter /\ NoSetup /\ NoNormalize

\* A process before any setup call.
UnconfiguredInit ==
    RegInit /\ MetricsInit /\ NoAdapter /\ SetupEnv /\ NoNormalize

\* The metrics of a built instance, used directly.
BuiltMetricsInit ==
    BuiltInit /\ MetricsInit /\ NoAdapter /\ NoSetup /\ NoNormalize

\* An application after enable_metrics.
InstrumentedInit ==
    BuiltInit /\ MetricsInit /\ AdapterInit /\ NoSetup /\ NoNormalize

RegNext ==
    \E t \in Threads :
        \/ \E args \in Configs : get_metrics_registry_call(t, args)
        \/ get_metrics_registry_check(t)
        \/ get_metrics_registry_lock(t)
        \/ get_metrics_registry_recheck(t)
        \/ get_metrics_registry_construct(t)
        \/ get_metrics_registry_assign(t)
        \/ get_metrics_registry_unlock(t)
        \/ get_metrics_registry_return(t)

Next == RegNext

Spec == Init /\ [][Next]_vars

\* The steps a thread takes inside get_metrics_registry once it has
\* entered it.
RegSteps(t) ==
    \/ get_metrics_registry_check(t)
    \/ get_metrics_registry_lock(t)
    \/ get_metrics_registry_recheck(t)
    \/ get_metrics_registry_construct(t)
    \/ get_metrics_registry_assign(t)
    \/ get_metrics_registry_unlock(t)
    \/ get_metrics_registry_return(t)

\* A call is entered while the constructor runs left cover every call
\* under way, so that no call started is cut short by the bound MaxCtor.
get_metrics_registry_call_within(t, args) ==
    /\ \/ _metrics_instance # NoInstance
       \/ ctorRuns + Cardinality({ u \in Threads : gpc[u] # "idle" }) < MaxCtor
    /\ get_metrics_registry_call(t, args)

\* The configurations of the calls: all defaults, and one whose latency
\* buckets make the constructor raise.
FairConfigs ==
    { args \in Configs : args.namespace \in {None, "b"} }

\* No instance exists and RL_METRICS_NAMESPACE is unset.
FairInit == Init /\ environ = ""

FairNext ==
    \E t \in Threads :
        \/ \E args \in FairConfigs : get_metrics_registry_call_within(t, args)
        \/ RegSteps(t)

\* Threads calling get_metrics_registry under a fair scheduler: a thread
\* that can take its next step inside the function eventually takes it.
\* Nothing obliges a thread to make a call.
SpecFair ==
    FairInit /\ [][FairNext]_vars /\ \A t \in Threads : WF_vars(RegSteps(t))

\* The steps of observe_request, shared by every specification that calls it.
ObserveSteps(w) ==
    \/ observe_request_latency(w)
    \/ observe_request_count(w)
    \/ observe_request_count_store(w)
    \/ observe_request_size(w)
    \/ observe_request_except(w)
    \/ observe_request_return(w)

\* The steps of a call in which no metric mutation raises.
ObserveStepsNoFailure(w) ==
    \/ observe_request_latency(w)
    \/ observe_request_count(w)
    \/ observe_request_count_store(w)
    \/ observe_request_size(w)
    \/ observe_request_return(w)

\* One caller making observe_request calls one after the other, with every
\* kind of argument and of internal failure.
ObserveNext ==
    \E w \in {1} :
          \/ \E method \in Methods, path \in Paths, status_code \in {200, 503},
                size \in {NoSize, 0, 7}, fail_at \in FailAts :
                api_observe_request(w, MaxObs, method, path, 30, status_code,
                                    size, fail_at, TRUE)
          \/ ObserveSteps(w)

SpecObserve == BuiltMetricsInit /\ [][ObserveNext]_vars

\* The durations (ms) and response sizes (bytes) observed against the
\* buckets: below the first bound, on bounds, between bounds and above the
\* last bound.
HistogramDurations == {0, 5, 10, 30, 50, 100, 250, 20000}

HistogramSizes == {NoSize, 100, 150}

\* One caller making observe_request calls one after the other, in which no
\* metric mutation raises.
HistogramNext ==
    \E w \in {1} :
          \/ \E duration \in HistogramDurations, size \in HistogramSizes :
                api_observe_request(w, MaxObs, "GET", "/api/users", duration,
                                    200, size, "none", TRUE)
          \/ ObserveStepsNoFailure(w)

SpecHistogram == BuiltMetricsInit /\ [][HistogramNext]_vars

\* NWorkers threads, each making CallsEach calls with the same labels
\* (tests/test_metrics.py:167-192).
ThreadsNext ==
    \E w \in Workers :
          \/ api_observe_request(w, CallsEach, "GET", "/thread-test", 10, 200,
                                 NoSize, "none", FALSE)
          \/ ObserveStepsNoFailure(w)

SpecThreads == BuiltMetricsInit /\ [][ThreadsNext]_vars

\* The calls concurrent callers make: <<method, path, status_code,
\* response_size, the mutation that raises>>.  The latency observation
\* raises for a duration that is no number, the size observation for a
\* size that is no number.
ConcurrentCalls ==
    { <<"GET", "/api/users", 200, NoSize, "none">>,
      <<"GET", "/api/users", 503, 7, "none">>,
      <<"GET", "/api/users", 200, 7, "size">>,
      <<"POST", "/api/items", 404, 0, "latency">> }

\* NWorkers threads, each making one of the calls, concurrently.
ConcurrentNext ==
    \E w \in Workers :
          \/ \E c \in ConcurrentCalls :
                api_observe_request(w, 1, c[1], c[2], 30, c[3], c[4], c[5],
                                    FALSE)
          \/ ObserveSteps(w)

SpecConcurrent == BuiltMetricsInit /\ [][ConcurrentNext]_vars

\* One caller observing requests of every kind of status code.
StatusCodes == {-1, 0, 200, 399, 400, 404, 499, 500, 503, 600}

ClassifyNext ==
    \E w \in {1} :
          \/ \E status_code \in StatusCodes :
                api_observe_request(w, MaxObs, "GET", "/api/users", 30,
                                    status_code, NoSize, "none", FALSE)
          \/ ObserveStepsNoFailure(w)

SpecClassify == BuiltMetricsInit /\ [][ClassifyNext]_vars

\* Workers calling inc_in_progress and dec_in_progress concurrently.
GaugeNext ==
    \E w \in Workers :
          \/ \E method \in Methods : api_inc_in_progress(w, method)
          \/ \E method \in Methods : api_dec_in_progress(w, method)
          \/ in_progress_lock(w)
          \/ in_progress_store(w)

SpecGauge == BuiltMetricsInit /\ [][GaugeNext]_vars

\* Workers running with metrics.track_in_progress(method) blocks.
TrackNext ==
    \E w \in Workers :
          \/ \E method \in Methods, exit \in BodyExits :
                api_track_in_progress(w, method, exit)
          \/ track_in_progress_exit(w)
          \/ in_progress_lock(w)
          \/ in_progress_store(w)

SpecTrack == BuiltMetricsInit /\ [][TrackNext]_vars

\* Bucket sequences handed to the constructor: none (the defaults), a
\* strictly increasing positive one, one with equal neighbours, ones with a
\* zero and with a negative bound, and an unsorted one.
BucketSequences ==
    { NoBuckets, <<10, 50, 100>>, <<10, 10, 50>>, <<0, 10>>, <<-5, 10>>,
      <<50, 10>> }

\* the application calls get_metrics_registry(histogram_buckets=hb,
\* response_size_buckets=sb) from its one setup thread t
api_get_metrics_registry(t, hb, sb) ==
    LET args == [NoArgs EXCEPT !.histogram_buckets = hb,
                               !.response_size_buckets = sb]
        g    == GetMetricsRegistry(args)
    IN  /\ gpc[t] = "idle"
        /\ _metrics_instance = NoInstance
        /\ ctorRuns < MaxCtor
        /\ gargs' = [gargs EXCEPT ![t] = args]
        /\ registered' = g.registered
        /\ ctorRuns' = ctorRuns + 1
        /\ ctorRaised' = IF g.raised THEN ctorRaised + 1 ELSE ctorRaised
        /\ _metrics_instance' = g.instance
        /\ firstBuilt' = g.instance
        /\ gret' = [gret EXCEPT ![t] = IF g.raised THEN Raised ELSE g.instance]
        /\ UNCHANGED <<_metrics_lock, environ, gpc, gnew>>
        /\ UNCHANGED <<metricVars, workerVars, adapterVars, setupVars, normVars>>

\* worker w calls observe_request on the instance get_metrics_registry
\* returned
built_observe_request(w, duration, size) ==
    /\ _metrics_instance # NoInstance
    /\ api_observe_request(w, MaxObs, "GET", "/api/users", duration, 200, size, "none", TRUE)

\* A process that builds its registry with buckets of its choice and then
\* observes requests.
ConstructNext ==
    \/ \E hb \in BucketSequences, sb \in {NoBuckets, <<100, 100>>, <<1000, 100>>} :
          api_get_metrics_registry(1, hb, sb)
    \/ \E duration \in {10, 30}, size \in {NoSize, 100} :
          built_observe_request(1, duration, size)
    \/ ObserveStepsNoFailure(1)

SpecConstruct == Init /\ [][ConstructNext]_vars

\* The path segments requested, as their characters.
\* users: a word
SegUsers ==
    <<"u", "s", "e", "r", "s">>

\* 42: digits only
SegNumber ==
    <<"4", "2">>

\* 123abc: digits, then letters
SegDigitsThenLetters ==
    <<"1", "2", "3", "a", "b", "c">>

\* v2: a letter, then a digit
SegVersion ==
    <<"v", "2">>

\* 123e4567-e89b-12d3-a456-426614174000: a UUID whose first character is a digit
SegUuidDigitFirst ==
    <<"1", "2", "3", "e", "4", "5", "6", "7", "-", "e", "8", "9", "b", "-",
      "1", "2", "d", "3", "-", "a", "4", "5", "6", "-", "4", "2", "6", "6",
      "1", "4", "1", "7", "4", "0", "0", "0">>

\* a23e4567-e89b-12d3-a456-426614174000: a UUID whose first character is a letter
SegUuidLetterFirst ==
    <<"a", "2", "3", "e", "4", "5", "6", "7", "-", "e", "8", "9", "b", "-",
      "1", "2", "d", "3", "-", "a", "4", "5", "6", "-", "4", "2", "6", "6",
      "1", "4", "1", "7", "4", "0", "0", "0">>

\* A23E4567-E89B-12D3-A456-42661417400F: a UUID in upper case
SegUuidUpper ==
    <<"A", "2", "3", "E", "4", "5", "6", "7", "-", "E", "8", "9", "B", "-",
      "1", "2", "D", "3", "-", "A", "4", "5", "6", "-", "4", "2", "6", "6",
      "1", "4", "1", "7", "4", "0", "0", "F">>

\* r.pdf: a file name with an extension
SegFile ==
    <<"r", ".", "p", "d", "f">>

\* 7.5: digits, a dot, digits
SegDecimal ==
    <<"7", ".", "5">>

InputSegments ==
    { SegUsers, SegNumber, SegDigitsThenLetters, SegVersion,
      SegUuidDigitFirst, SegUuidLetterFirst, SegUuidUpper, SegFile,
      SegDecimal }

\* "/" and each segment in turn: the path with these segments
RECURSIVE PathOf(_)
PathOf(segments) ==
    IF segments = <<>> THEN <<>>
    ELSE <<"/">> \o Head(segments) \o PathOf(Tail(segments))

\* The paths of up to MaxSegments of the segments.
InputPaths ==
    { PathOf(segments) :
        segments \in UNION { [1..n -> InputSegments] : n \in 1..MaxSegments } }

\* A process about to normalize one of the paths.
NormalizeInit ==
    /\ RegInit /\ MetricsInit /\ NoAdapter /\ NoSetup
    /\ raw_path \in InputPaths
    /\ normalized = NotNormalized

\* normalize_api_paths applied to a path.
NormalizeNext == normalize_api_paths_call

SpecNormalize == NormalizeInit /\ [][NormalizeNext]_vars

\* The applications handed to enable_metrics, by their attributes.
AppObjects == SUBSET AppAttributes

\* The setup calls of a process, one after the other.
SetupNext ==
    \/ \E attrs \in AppObjects, args \in Configs,
          exclude_paths \in {NotGiven, Given({})} :
          auto_enable_metrics(attrs, args, exclude_paths)
    \/ api_start_metrics_server

SpecSetup == UnconfiguredInit /\ [][SetupNext]_vars

\* The requests made: <<method, path>>.
Requests ==
    { <<"GET", "/api/users">>, <<"POST", "/api/users/7">>,
      <<"GET", "/health">> }

\* What handling a request comes to: <<handler, status, Content-Length
\* header, length of the body>>.
Handlers ==
    { <<"response", 200, NoHeader, 3>>, <<"response", 404, <<"7">>, 3>>,
      <<"raise", 0, NoHeader, 0>>, <<"short_circuit", 403, NoHeader, 3>> }

\* Requests handled, one after the other, by an application instrumented
\* by enable_metrics.
AdapterNext ==
    \E w \in {1} :
          \/ \E r \in Requests, h \in Handlers, fail_at \in {"none", "count"} :
                \/ flask_request(w, r[1], r[2], h[1], h[2], h[3], h[4],
                                 fail_at)
                \/ fastapi_request(w, r[1], r[2], h[1], h[2], h[3], h[4],
                                   fail_at)
          \/ flask_before_request_short_circuit(w)
          \/ before_request_handler(w)
          \/ flask_view(w)
          \/ after_request_handler(w)
          \/ after_request_handler_record(w)
          \/ after_request_handler_return(w)
          \/ fastapi_outer_short_circuit(w)
          \/ dispatch(w)
          \/ dispatch_excluded(w)
          \/ dispatch_call_next(w)
          \/ dispatch_record(w)
          \/ dispatch_finally(w)
          \/ request_done(w)
          \/ in_progress_lock(w)
          \/ in_progress_store(w)
          \/ ObserveSteps(w)

SpecAdapter == InstrumentedInit /\ [][AdapterNext]_vars

\* The application calls its adapter's enable_metrics(app) again, with the
\* options of the first call, before it serves requests.
enable_metrics_again ==
    /\ setup.n < MaxSetups
    /\ nreqs = 0
    /\ adapter_enable_metrics(app.framework, {}, NoArgs, app.exclude_option)
    /\ UNCHANGED <<_metrics_lock, environ, gpc, gargs, gnew, gret>>
    /\ UNCHANGED <<metricVars, workerVars, req, nreqs, platform, port,
                   normVars>>

\* An application on which enable_metrics(app) has been called once, with
\* the default options.
InstalledOnceInit ==
    /\ BuiltInit /\ MetricsInit /\ NoSetup /\ NoNormalize
    /\ app \in { enable_metrics("flask", NotGiven, NotGiven, FALSE),
                 enable_metrics("fastapi", NotGiven, NotGiven, FALSE) }
    /\ req = [w \in Workers |-> NoReq]
    /\ nreqs = 0

\* Further enable_metrics calls, then requests handled one after the other.
ReinstallNext ==
    \/ enable_metrics_again
    \/ \E w \in {1} :
          \/ \E r \in Requests,
                h \in { <<"response", 200, NoHeader, 3>>,
                        <<"raise", 0, NoHeader, 0>> } :
                \/ flask_request(w, r[1], r[2], h[1], h[2], h[3], h[4],
                                 "none")
                \/ fastapi_request(w, r[1], r[2], h[1], h[2], h[3], h[4],
                                   "none")
          \/ before_request_handler(w)
          \/ flask_view(w)
          \/ after_request_handler(w)
          \/ after_request_handler_record(w)
          \/ after_request_handler_return(w)
          \/ dispatch(w)
          \/ dispatch_excluded(w)
          \/ dispatch_call_next(w)
          \/ dispatch_record(w)
          \/ dispatch_finally(w)
          \/ request_done(w)
          \/ in_progress_lock(w)
          \/ in_progress_store(w)
          \/ ObserveStepsNoFailure(w)

SpecReinstall == InstalledOnceInit /\ [][ReinstallNext]_vars

\* The exclude_paths options given to enable_metrics: omitted, the empty
\* list, a raw request path, and the label a normalizer gives that path.
ExcludeOptions ==
    { NotGiven, Given({}), Given({"/api/users/7"}), Given({"/api/users/:id"}) }

\* An application instrumented by enable_metrics(app, path_normalizer=...,
\* exclude_paths=...) of either adapter.
ExcludeInit ==
    /\ BuiltInit /\ MetricsInit /\ NoSetup /\ NoNormalize
    /\ \E framework \in {"flask", "fastapi"},
          path_normalizer \in {NotGiven, Given(NormalizeIds)},
          exclude_paths \in ExcludeOptions :
          app = enable_metrics(framework, path_normalizer, exclude_paths,
                               FALSE)
    /\ req = [w \in Workers |-> NoReq]
    /\ nreqs = 0

\* Requests answered by their view, handled one after the other.
ExcludeNext ==
    \E w \in {1} :
          \/ \E r \in Requests :
                \/ flask_request(w, r[1], r[2], "response", 200, NoHeader, 3,
                                 "none")
                \/ fastapi_request(w, r[1], r[2], "response", 200, NoHeader,
                                   3, "none")
          \/ before_request_handler(w)
          \/ flask_view(w)
          \/ after_request_handler(w)
          \/ after_request_handler_record(w)
          \/ after_request_handler_return(w)
          \/ dispatch(w)
          \/ dispatch_excluded(w)
          \/ dispatch_call_next(w)
          \/ dispatch_record(w)
          \/ dispatch_finally(w)
          \/ request_done(w)
          \/ in_progress_lock(w)
          \/ in_progress_store(w)
          \/ ObserveStepsNoFailure(w)

SpecExclude == ExcludeInit /\ [][ExcludeNext]_vars

\* The Content-Length headers of the responses: none, "7", "12", "0" and
\* one that is no number.
ContentLengths == { NoHeader, <<"7">>, <<"1", "2">>, <<"0">>, <<"a">> }

\* The lengths of the response bodies: empty and three bytes.
BodyLengths == {0, 3}

\* Requests answered with every combination of header and body, handled
\* one after the other.
SizeNext ==
    \E w \in {1} :
          \/ \E content_length \in ContentLengths, body_len \in BodyLengths :
                \/ flask_request(w, "GET", "/api/users", "response", 200,
                                 content_length, body_len, "none")
                \/ fastapi_request(w, "GET", "/api/users", "response", 200,
                                   content_length, body_len, "none")
          \/ before_request_handler(w)
          \/ flask_view(w)
          \/ after_request_handler(w)
          \/ after_request_handler_record(w)
          \/ after_request_handler_return(w)
          \/ dispatch(w)
          \/ dispatch_call_next(w)
          \/ dispatch_record(w)
          \/ dispatch_finally(w)
          \/ request_done(w)
          \/ in_progress_lock(w)
          \/ in_progress_store(w)
          \/ ObserveStepsNoFailure(w)

SpecSize == InstalledOnceInit /\ [][SizeNext]_vars

(***************************************************************************)
(* Properties.                                                             *)
(***************************************************************************)
IsInstance(v) == v # NoInstance /\ v # Raised

\* C1 (Spec): every get_metrics_registry call that returns gives back the
\* one instance first built, whatever arguments it was called with, and
\* that instance has the namespace and the buckets resolved from the
\* arguments of the call that built it; the global never changes once set.
SingletonIdempotence ==
    /\ \A t \in Threads : IsInstance(gret[t]) => gret[t] = firstBuilt
    /\ _metrics_instance # NoInstance => _metrics_instance = firstBuilt
    /\ IsInstance(firstBuilt) =>
          /\ firstBuilt.id >= 1
          /\ firstBuilt.namespace \in {"", "env", "a", "b"}
          /\ firstBuilt.histogram_buckets # NoBuckets
          /\ firstBuilt.response_size_buckets # NoBuckets

\* C1 witness: a call with other arguments than the instance was built
\* with has been answered with the instance an earlier call returned.
SingletonIdempotenceWitness ==
    \E t, u \in Threads :
        /\ t # u
        /\ gpc[t] = "idle" /\ gpc[u] = "idle"
        /\ IsInstance(gret[t]) /\ gret[u] = gret[t]
        /\ gargs[u].namespace = "a"
        /\ gret[u].namespace # "a"
        /\ gargs[u].histogram_buckets # gret[u].histogram_buckets

\* C2 (Spec): in every interleaving at most one constructor run returns
\* an instance (every other run raised), and every caller that returns an
\* instance returns that one.
ExactlyOneConstruction ==
    /\ ctorRuns - ctorRaised <= 1
    /\ \A t \in Threads :
          IsInstance(gret[t]) =>
              /\ ctorRuns - ctorRaised = 1
              /\ gret[t] = _metrics_instance
    /\ \A t, u \in Threads :
          IsInstance(gret[t]) /\ IsInstance(gret[u]) => gret[t].id = gret[u].id

\* C2 witness: a thread that found no instance at the unlocked check holds
\* the lock and finds the instance another thread built meanwhile and has
\* returned.
ExactlyOneConstructionWitness ==
    \E t, u \in Threads :
        /\ t # u
        /\ gpc[t] = "recheck"
        /\ _metrics_lock = t
        /\ IsInstance(_metrics_instance)
        /\ gret[u] = _metrics_instance
        /\ ctorRuns = 1

\* C3 (SpecAdapter): a request that is not excluded and for which
\* inc_in_progress was called has had dec_in_progress called exactly once
\* when it ends, whether it ended with a response, with a handler
\* exception or with a framework-generated error response.
InProgressPaired ==
    \A w \in Workers :
        ( /\ pc[w] = "req_done"
          /\ req[w].path \notin app.exclude_paths
          /\ req[w].incs >= 1 )
        => req[w].decs = 1

\* C4 (SpecAdapter): a request whose path is in the configured exclude set
\* mutates no metric: the adapter makes no inc_in_progress call, no
\* dec_in_progress call and no observe_request call for it.
ExcludedPathNoMutation ==
    \A w \in Workers :
        ( /\ pc[w] # "idle"
          /\ req[w].path \in app.exclude_paths )
        => /\ req[w].incs = 0
           /\ req[w].decs = 0
           /\ req[w].observes = 0

\* C5 (SpecGauge): in every interleaving of inc_in_progress and
\* dec_in_progress calls by concurrent callers, the in-progress gauge of
\* each method equals the number of increments completed for that method
\* minus the number of decrements completed for it: no update is lost and
\* calls for one method leave the gauge of the other alone.
GaugeEqualsIncMinusDec ==
    \A m \in Methods :
        LabelsGet(requests_in_progress, m) = ninc[m] - ndec[m]

\* C5 witness: increments and a decrement for GET have completed, and one
\* caller holds the GET gauge between its read and its store while another
\* caller's call for GET waits.
GaugeEqualsIncMinusDecWitness ==
    \E w, v \in Workers :
        /\ w # v
        /\ pc[w] = "gauge_store" /\ gop[w].method = "GET"
        /\ pc[v] = "gauge_lock" /\ gop[v].method = "GET"
        /\ ninc["GET"] + ndec["GET"] >= 2
        /\ ndec["GET"] >= 1

\* The sum of the values f takes on the finite set S.
RECURSIVE SumValues(_, _)
SumValues(f, S) ==
    IF S = {} THEN 0
    ELSE LET k == CHOOSE x \in S : TRUE
         IN  f[k] + SumValues(f, S \ {k})

ThreadTestKey == <<"GET", "/thread-test", "200", "none">>

\* C6 (SpecThreads): NWorkers concurrent callers each make CallsEach
\* observe_request calls with the same method, path and status code; in
\* every interleaving no call raises, and when all calls have returned the
\* request counter of that label combination is exactly
\* NWorkers * CallsEach and no other counter series exists.
ThreadSafety ==
    /\ \A w \in Workers : pc[w] # "obs_raised" /\ ~obs[w].failed
    /\ ( \A w \in Workers : pc[w] = "idle" /\ ncalls[w] = CallsEach )
       => /\ LabelsGet(request_count, ThreadTestKey) = NWorkers * CallsEach
          /\ DOMAIN request_count = {ThreadTestKey}

\* C6 witness: every caller has made all its calls and the counter shows
\* their number.
ThreadSafetyWitness ==
    /\ \A w \in Workers : pc[w] = "idle" /\ ncalls[w] = CallsEach
    /\ LabelsGet(request_count, ThreadTestKey) = NWorkers * CallsEach
    /\ NWorkers >= 2 /\ CallsEach >= 2

CounterTotal == SumValues(request_count, DOMAIN request_count)

CallsReturned == SumValues(ncalls, Workers)

CountersNeverDecrease ==
    \A k \in DOMAIN request_count :
        /\ k \in DOMAIN request_count'
        /\ request_count'[k] >= request_count[k]

\* C7 (SpecObserve): whenever no observe_request call is running, the sum
\* of the request counter over all label combinations equals the number of
\* observe_request calls made, not counting a call in which a metric
\* mutation raised before the counter was reached; and no counter series
\* disappears or decreases in any step.
CounterTotalEqualsCalls ==
    /\ []( ( \A w \in Workers : pc[w] = "idle" )
            => CounterTotal = CallsReturned - nlost )
    /\ [][CountersNeverDecrease]_vars

\* C7 witness: two calls with different labels have returned, none lost,
\* and the two counter series add up to two.
CounterTotalEqualsCallsWitness ==
    /\ \A w \in Workers : pc[w] = "idle"
    /\ nlost = 0
    /\ CallsReturned = 2
    /\ CounterTotal = 2
    /\ Cardinality(DOMAIN request_count) = 2

\* The number of observations a histogram series holds and their sum
\* (0 and 0 for a series that does not exist).
SeriesCount(metric, key) ==
    IF key \in DOMAIN metric
    THEN SumValues(metric[key].buckets, DOMAIN metric[key].buckets) ELSE 0

SeriesSum(metric, key) ==
    IF key \in DOMAIN metric THEN metric[key].sum ELSE 0

\* metric has one observation of amount more than before in series key and
\* is otherwise the same.
OneMoreObservation(before, metric, key, amount) ==
    /\ DOMAIN metric = DOMAIN before \cup {key}
    /\ SeriesCount(metric, key) = SeriesCount(before, key) + 1
    /\ SeriesSum(metric, key) = SeriesSum(before, key) + amount
    /\ \A k \in DOMAIN before : k # key => metric[k] = before[k]

\* The labels the specification gives the counter for a status code.
SpecStatusLabel(status_code) ==
    IF status_code = 200 THEN "200"
    ELSE IF status_code = 503 THEN "503"
    ELSE "?"

SpecErrorType(status_code) ==
    IF status_code \in 400..499 THEN "client_error"
    ELSE IF status_code >= 500 THEN "server_error"
    ELSE "none"

\* C8 (SpecObserve): a call observe_request(method, path, duration,
\* status_code, response_size) in which nothing raises has, when it
\* returns, added one observation of duration to the latency series
\* (method, path), added 1 to the counter series (method, path,
\* str(status_code), error_type), added one observation of response_size
\* to the size series (method, path) exactly when a size was supplied, 0
\* included, and changed no other series and not the in-progress gauge.
ObserveRequestEffect ==
    \A w \in Workers :
        ( pc[w] = "obs_done" /\ ~obs[w].failed /\ obs[w].pre.taken )
        => LET o   == obs[w]
               key == <<o.method, o.path, SpecStatusLabel(o.status_code),
                        SpecErrorType(o.status_code)>>
           IN  /\ OneMoreObservation(o.pre.latency, request_latency,
                                     <<o.method, o.path>>, o.duration)
               /\ DOMAIN request_count = DOMAIN o.pre.count \cup {key}
               /\ request_count[key] = LabelsGet(o.pre.count, key) + 1
               /\ \A k \in DOMAIN o.pre.count :
                     k # key => request_count[k] = o.pre.count[k]
               /\ IF o.response_size = NoSize
                  THEN response_size = o.pre.size
                  ELSE OneMoreObservation(o.pre.size, response_size,
                                          <<o.method, o.path>>,
                                          o.response_size)
               /\ requests_in_progress = o.pre.in_progress

\* C8 witness: a second call for the same method and path, with a response
\* size of 0, is about to return; its size observation is recorded.
ObserveRequestEffectWitness ==
    \E w \in Workers :
        /\ pc[w] = "obs_done" /\ ~obs[w].failed /\ obs[w].pre.taken
        /\ obs[w].response_size = 0
        /\ obs[w].status_code = 503
        /\ SeriesCount(obs[w].pre.latency, <<obs[w].method, obs[w].path>>) = 1
        /\ SeriesCount(response_size, <<obs[w].method, obs[w].path>>) >= 1

\* C9 (SpecClassify): for every status code, the error_type label of a
\* call is "client_error" if and only if 400 <= status_code <= 499,
\* "server_error" if and only if status_code >= 500, and "none" if and only
\* if status_code < 400; it is one of these three, and it is the label of
\* the counter series the call increments.
ErrorTypeClassification ==
    \A w \in Workers :
        pc[w] # "idle"
        => LET sc == obs[w].status_code
               et == obs[w].error_type
           IN  /\ et \in {"client_error", "server_error", "none"}
               /\ (et = "client_error") <=> (400 <= sc /\ sc <= 499)
               /\ (et = "server_error") <=> (sc >= 500)
               /\ (et = "none") <=> (sc < 400)
               /\ pc[w] \in {"obs_size", "obs_done"}
                  => \E k \in DOMAIN request_count :
                        /\ k[4] = et
                        /\ k[3] = str(sc)
                        /\ request_count[k] >= 1

\* C9 witness: a call with status 400 is counted as a client error after a
\* call with status -1 was counted with error type none.
ErrorTypeClassificationWitness ==
    \E w \in Workers :
        /\ pc[w] = "obs_done"
        /\ obs[w].status_code = 400
        /\ <<"GET", "/api/users", "400", "client_error">>
              \in DOMAIN request_count
        /\ <<"GET", "/api/users", "-1", "none">> \in DOMAIN request_count

\* C10 (SpecAdapter): no exception leaves observe_request; a call in which
\* a metric mutation raised has logged the error when it returns, and the
\* request it was made for ends with the handler's response and status.
ObserveRequestNeverRaises ==
    \A w \in Workers :
        /\ pc[w] # "obs_raised"
        /\ ( obs[w].failed /\ pc[w] \notin {"obs_except", "idle"} )
           => obs[w].logged
        /\ ( pc[w] = "req_done" /\ req[w].observes >= 1 )
           => /\ req[w].outcome = "response"
              /\ req[w].response
              /\ req[w].handler = "response" => obs[w].status_code = req[w].status

\* C10 witness: a Flask request whose observe_request call failed inside
\* has been answered with the view's response.
ObserveRequestNeverRaisesWitness ==
    \E w \in Workers :
        /\ app.framework = "flask"
        /\ pc[w] = "req_done"
        /\ req[w].observes = 1
        /\ obs[w].failed /\ obs[w].logged
        /\ req[w].outcome = "response"
        /\ req[w].handler = "response"

\* C11 (SpecAdapter): a non-excluded request whose handler raised and for
\* which the adapter got no response has, when it ends, no observe_request
\* call and exactly one dec_in_progress call.
NoResponseSkipsObserveButDecrements ==
    \A w \in Workers :
        ( /\ pc[w] = "req_done"
          /\ req[w].handler = "raise"
          /\ ~req[w].response
          /\ req[w].path \notin app.exclude_paths )
        => /\ req[w].observes = 0
           /\ req[w].decs = 1

\* C12 (SpecAdapter): for a non-excluded request that gets a response the
\* adapter calls inc_in_progress before the handler runs, dec_in_progress
\* after the handler and before observe_request: whenever observe_request
\* has been called for the request, dec_in_progress has been called.
LifecycleOrder ==
    \A w \in Workers :
        ( pc[w] # "idle" /\ req[w].path \notin app.exclude_paths )
        => /\ req[w].response => req[w].incs = 1
           /\ req[w].decs >= 1 /\ req[w].handler = "response"
                 => req[w].response
           /\ req[w].observes >= 1
                 => req[w].response /\ req[w].decs = 1

\* The configured normalizer raises for the path of w's request, a request
\* the adapter's request-arrival hook has seen (the normalizer is not
\* called for any other).
NormalizerRaises(w) ==
    /\ pc[w] # "idle"
    /\ req[w].handler # "short_circuit"
    /\ app.path_normalizer.given
    /\ app.path_normalizer.value[req[w].path] = RaiseMark

\* C13 (SpecAdapter): when the configured path_normalizer raises for the
\* path of a request that gets a response, the adapter logs a warning,
\* calls observe_request exactly once with the raw path as the path label,
\* and the request ends with the response; the counter then has a series
\* with the raw path.
NormalizerFailureFallsBack ==
    \A w \in Workers :
        NormalizerRaises(w)
        => /\ req[w].observes >= 1
                => /\ req[w].observes = 1
                   /\ req[w].warned
                   /\ obs[w].path = req[w].path
           /\ ( pc[w] = "req_done" /\ req[w].response )
                => /\ req[w].observes = 1
                   /\ req[w].outcome = "response"
                   /\ ~obs[w].failed
                        => \E k \in DOMAIN request_count :
                              k[1] = req[w].method /\ k[2] = req[w].path

\* C13 witness: under an adapter's hooks a request whose normalizer
\* raised has ended with its response, recorded under the raw path.
NormalizerFailureFallsBackWitness ==
    \E w \in Workers :
        /\ NormalizerRaises(w)
        /\ pc[w] = "req_done"
        /\ req[w].response /\ req[w].outcome = "response"
        /\ req[w].warned
        /\ ~obs[w].failed
        /\ <<req[w].method, req[w].path, "200", "none">>
              \in DOMAIN request_count

\* The workers inside a with track_in_progress(m) block: __enter__ has
\* incremented and __exit__ has not yet decremented.
InsideBlock(m) ==
    { w \in Workers :
        /\ gop[w].method = m
        /\ \/ pc[w] \in TrackBodies
           \/ pc[w] \in {"gauge_lock", "gauge_store"} /\ gop[w].amount = -1 }

\* C14 (SpecTrack): the in-progress gauge of each method counts the
\* workers inside a track_in_progress block for it: entering adds 1,
\* leaving the block normally, by an exception or by an early return
\* takes exactly 1 away, so that with every block left the gauge is back
\* at the 0 it had before and increments equal decrements.
TrackInProgressBalanced ==
    /\ \A m \in Methods :
          LabelsGet(requests_in_progress, m) = Cardinality(InsideBlock(m))
    /\ ( \A w \in Workers : pc[w] = "idle" )
       => \A m \in Methods :
             /\ LabelsGet(requests_in_progress, m) = 0
             /\ ninc[m] = ndec[m]

\* C14 witness: a block for GET left by an exception has decremented,
\* while another worker is still inside a block for GET.
TrackInProgressBalancedWitness ==
    \E w, v \in Workers :
        /\ w # v
        /\ pc[w] = "idle" /\ gop[w].method = "GET" /\ gop[w].amount = -1
        /\ pc[v] = TrackBody("exception") /\ gop[v].method = "GET"
        /\ ndec["GET"] = 1
        /\ LabelsGet(requests_in_progress, "GET") = 1

\* C15 (SpecSetup): a setup call that finds the metrics port in use does
\* not raise: start_metrics_server logs a warning and returns, and
\* enable_metrics of a recognised application whose metrics can be built
\* installs its hooks or middleware and returns the metrics instance.
PortInUseNeverRaises ==
    ( /\ setup.call # ""
      /\ setup.found = "in_use"
      /\ setup.error \notin {"unsupported_framework", "construction"} )
    => /\ setup.outcome = "returned"
       /\ setup.warnings >= 1
       /\ setup.call = "enable_metrics"
             => /\ app.framework \in {"flask", "fastapi"}
                /\ IsInstance(setup.returned)
                /\ setup.returned = _metrics_instance

\* app is recognised as a Flask or as a FastAPI application.
Recognised(attrs) ==
    \/ "before_request" \in attrs /\ "after_request" \in attrs
    \/ "add_middleware" \in attrs

\* C16 (SpecSetup): the auto-detecting enable_metrics(app) raises the
\* unsupported-framework error exactly when app has neither both
\* before_request and after_request nor add_middleware, and then it has
\* changed nothing: the metrics singleton, prometheus' registry, the
\* metrics server and what is installed on app are as the call found them.
AutoDetectFailsCleanly ==
    setup.call = "enable_metrics"
    => /\ (setup.error = "unsupported_framework") <=> ~Recognised(setup.attrs)
       /\ ~Recognised(setup.attrs)
             => /\ setup.outcome = "raised"
                /\ setup.returned = NoInstance
                /\ _metrics_instance = setup.pre.instance
                /\ registered = setup.pre.registered
                /\ server = setup.pre.server
                /\ app = setup.pre.app

\* C16 witness: enable_metrics of an object that has before_request only
\* has raised in a process without singleton, server and hooks.
AutoDetectFailsCleanlyWitness ==
    /\ setup.call = "enable_metrics"
    /\ setup.attrs = {"before_request"}
    /\ setup.outcome = "raised"
    /\ setup.error = "unsupported_framework"
    /\ _metrics_instance = NoInstance
    /\ server = "none"
    /\ app = NoApp

\* A valid bucket sequence: strictly increasing positive bounds.
StrictlyIncreasingPositive(b) ==
    /\ \A i \in 1..Len(b) : b[i] > 0
    /\ \A i \in 1..(Len(b) - 1) : b[i] < b[i + 1]

\* C17 (SpecConstruct): construction with a bucket sequence, for either
\* histogram, that is not strictly increasing or has a non-positive bound
\* fails: every instance built has strictly increasing positive bounds in
\* both histograms, so that no request is observed against other ones.
InvalidBucketsFailAtConstruction ==
    /\ \A t \in Threads :
          ( /\ gargs[t] # NoArgs
            /\ \/ ~StrictlyIncreasingPositive(gargs[t].histogram_buckets)
               \/ ~StrictlyIncreasingPositive(gargs[t].response_size_buckets) )
          => gret[t] = Raised
    /\ IsInstance(_metrics_instance)
          => /\ StrictlyIncreasingPositive(_metrics_instance.histogram_buckets)
             /\ StrictlyIncreasingPositive(
                    _metrics_instance.response_size_buckets)

\* The segments of a path: the characters between its slashes.
RECURSIVE Segments(_)
Segments(s) ==
    IF s = <<>> THEN <<>>
    ELSE LET rest == Tail(s)
             cut  == { i \in 1..Len(rest) : rest[i] = "/" }
             n    == IF cut = {} THEN Len(rest)
                     ELSE (CHOOSE i \in cut : \A j \in cut : i <= j) - 1
         IN  <<SubSeq(rest, 1, n)>> \o Segments(SubSeq(rest, n + 1, Len(rest)))

\* segment has the UUID shape: 8-4-4-4-12 hexadecimal digits of any case
UuidShaped(segment) ==
    /\ Len(segment) = 36
    /\ \A i \in 1..36 :
          IF i \in {9, 14, 19, 24} THEN segment[i] = "-"
          ELSE segment[i] \in HexChars

AllDigits(segment) ==
    /\ segment # <<>>
    /\ \A i \in 1..Len(segment) : segment[i] \in DigitChars

\* segment i of the path is its last one and a file name with an extension
TrailingFilename(segments, i) ==
    /\ i = Len(segments)
    /\ \E k \in 2..(Len(segments[i]) - 1) :
          /\ segments[i][k] = "."
          /\ \A j \in (k + 1)..Len(segments[i]) :
                segments[i][j] \in AlnumChars

\* C18 (SpecNormalize): normalize_api_paths replaces every segment of the
\* UUID shape, in any case and whatever its first character, with :uuid.
UuidSegmentsReplaced ==
    normalized # NotNormalized
    => /\ Len(Segments(normalized)) = Len(Segments(raw_path))
       /\ \A i \in 1..Len(Segments(raw_path)) :
             UuidShaped(Segments(raw_path)[i])
             => Segments(normalized)[i] = <<":", "u", "u", "i", "d">>

\* C19 (SpecNormalize): normalize_api_paths replaces with :id exactly the
\* segments made of decimal digits only; a segment that starts with digits
\* and goes on with other characters, and is neither UUID-shaped nor a
\* trailing file name, is left as it is.
NumericSegmentsReplacedExactly ==
    normalized # NotNormalized
    => /\ Len(Segments(normalized)) = Len(Segments(raw_path))
       /\ \A i \in 1..Len(Segments(raw_path)) :
             LET before == Segments(raw_path)[i]
                 after  == Segments(normalized)[i]
             IN  /\ AllDigits(before) <=> after = <<":", "i", "d">>
                 /\ ( /\ before[1] \in DigitChars
                      /\ ~AllDigits(before)
                      /\ ~UuidShaped(before)
                      /\ ~TrailingFilename(Segments(raw_path), i) )
                    => after = before

\* The cumulative count of bucket i of a histogram series, as exposed: the
\* observations counted in the buckets up to i (0 for a series that does
\* not exist).
CumulativeCount(metric, key, i) ==
    IF key \in DOMAIN metric
    THEN SumValues(metric[key].buckets, 1..i) ELSE 0

\* One observation of amount against bounds took series key from before to
\* metric as the specification says: the cumulative count of every bucket
\* whose bound is >= amount, and of +Inf, is one more, the cumulative count
\* of every bucket whose bound is < amount is the same, and the sum is
\* amount more.
CumulativeEffect(before, metric, key, bounds, amount) ==
    /\ key \in DOMAIN metric
    /\ \A i \in 1..(Len(bounds) + 1) :
          CumulativeCount(metric, key, i) =
              CumulativeCount(before, key, i)
              + (IF i = Len(bounds) + 1 \/ bounds[i] >= amount THEN 1 ELSE 0)
    /\ SeriesSum(metric, key) = SeriesSum(before, key) + amount

\* C20 (SpecHistogram): observing a value v in a histogram with bounds
\* b1 < ... < bn increments the cumulative count of exactly the buckets
\* whose bound is >= v, and of the +Inf bucket, leaves the cumulative count
\* of every bucket whose bound is < v unchanged, and adds v to the sum; this
\* holds of the latency histogram for the duration and of the size
\* histogram for a supplied response size.
HistogramObservationCumulative ==
    \A w \in Workers :
        ( pc[w] = "obs_done" /\ ~obs[w].failed /\ obs[w].pre.taken )
        => LET o == obs[w]
           IN  /\ CumulativeEffect(o.pre.latency, request_latency,
                                   <<o.method, o.path>>,
                                   _metrics_instance.histogram_buckets,
                                   o.duration)
               /\ o.response_size # NoSize
                  => CumulativeEffect(o.pre.size, response_size,
                                      <<o.method, o.path>>,
                                      _metrics_instance.response_size_buckets,
                                      o.response_size)

\* C20 witness: a duration of 30 has been observed against the bounds 10,
\* 50 and 100 in a series that held an observation equal to the bound 50:
\* the bucket of 10 still counts none, the others count both.
HistogramObservationCumulativeWitness ==
    \E w \in Workers :
        /\ pc[w] = "obs_done" /\ ~obs[w].failed /\ obs[w].pre.taken
        /\ _metrics_instance.histogram_buckets = <<10, 50, 100>>
        /\ obs[w].duration = 30
        /\ SeriesSum(obs[w].pre.latency, <<"GET", "/api/users">>) = 50
        /\ CumulativeCount(request_latency, <<"GET", "/api/users">>, 1) = 0
        /\ CumulativeCount(request_latency, <<"GET", "/api/users">>, 2) = 2
        /\ CumulativeCount(request_latency, <<"GET", "/api/users">>, 4) = 2
        /\ SeriesSum(request_latency, <<"GET", "/api/users">>) = 80

\* C21 (SpecAdapter): in every reachable state of an application
\* instrumented by either adapter the in-progress gauge of every method is
\* >= 0, and the adapter has called dec_in_progress for no request for
\* which it did not earlier call inc_in_progress, requests answered before
\* the adapter's request-arrival hook ran included.
GaugeNeverNegative ==
    /\ \A m \in Methods : LabelsGet(requests_in_progress, m) >= 0
    /\ \A w \in Workers : req[w].decs <= req[w].incs

\* C22 (SpecReinstall): each request that is not excluded and completes
\* with a response has caused exactly one observe_request call, exactly one
\* inc_in_progress call and exactly one dec_in_progress call, so that the
\* request counter holds at most one count per request, also when
\* enable_metrics has been called more than once on the application.
ExactlyOncePerRequest ==
    /\ \A w \in Workers :
          ( /\ pc[w] = "req_done"
            /\ req[w].outcome = "response"
            /\ req[w].path \notin app.exclude_paths )
          => /\ req[w].observes = 1
             /\ req[w].incs = 1
             /\ req[w].decs = 1
    /\ CounterTotal <= nreqs

\* C23 (SpecExclude): when exclude_paths is supplied to an adapter the
\* excluded paths are exactly the supplied ones, and the adapter's default
\* exclusions apply only when the option is omitted; with the empty set
\* supplied no path is excluded, so every request that has ended was
\* tracked and observed.
ExplicitExcludeIsExact ==
    /\ app.exclude_option.given
          => app.exclude_paths = app.exclude_option.value
    /\ \A w \in Workers :
          ( /\ pc[w] = "req_done"
            /\ app.exclude_option.given
            /\ app.exclude_option.value = {} )
          => req[w].incs = 1 /\ req[w].decs = 1 /\ req[w].observes = 1

\* C24 (SpecExclude): a request is left out of the recording exactly when
\* its raw path is a member of the exclude set, whatever path_normalizer is
\* configured, so that both adapters take the same decision for the same
\* raw path and exclude set.
ExclusionByRawPath ==
    \A w \in Workers :
        pc[w] = "req_done"
        => ( req[w].observes = 0 <=> req[w].path \in app.exclude_paths )

\* The integer a Content-Length header stands for (-1 for one that is no
\* number), written out for the headers of the model.
HeaderInteger(content_length) ==
    IF content_length = <<"7">> THEN 7
    ELSE IF content_length = <<"1", "2">> THEN 12
    ELSE IF content_length = <<"0">> THEN 0
    ELSE -1

\* The adapter holds the materialized body of the response: Flask's
\* response.data is the body; the response call_next hands to dispatch
\* streams its body, which dispatch never reads.
BodyKnown == app.framework = "flask"

\* C25 (SpecSize): the response_size an adapter passes to observe_request
\* is the integer value of the Content-Length header when the response has
\* that header, otherwise the length of the materialized body when the
\* adapter knows it, and it is absent only when the response has no such
\* header and the body length is not known.
ResponseSizeSource ==
    \A w \in Workers :
        ( pc[w] = "req_done" /\ req[w].observes = 1 )
        => /\ ( req[w].content_length # NoHeader
                /\ HeaderInteger(req[w].content_length) >= 0 )
                => obs[w].response_size = HeaderInteger(req[w].content_length)
           /\ ( req[w].content_length = NoHeader /\ BodyKnown )
                => obs[w].response_size = req[w].body_len
           /\ obs[w].response_size = NoSize
                => req[w].content_length = NoHeader /\ ~BodyKnown

\* C26 (SpecFair): under fair scheduling every call of get_metrics_registry
\* comes to an end (it returns, or the constructor's exception leaves it),
\* for any number of concurrent callers; the lock is held only by a thread
\* inside the with block, a held lock is released, and a call that finds
\* the instance at its first check goes to its return without taking the
\* lock.
EveryCallEnds ==
    /\ \A t \in Threads : (gpc[t] # "idle") ~> (gpc[t] = "idle")
    /\ (_metrics_lock # NoThread) ~> (_metrics_lock = NoThread)
    /\ [](\A t \in Threads :
             _metrics_lock = t
             => gpc[t] \in {"recheck", "construct", "assign", "unlock"})
    /\ [][\A t \in Threads :
             ( gpc[t] = "check" /\ _metrics_instance # NoInstance )
             => gpc'[t] \in {"check", "return"}]_vars

\* C26 witness: a caller waits for the lock while another thread, holding
\* it, is about to run the constructor.
EveryCallEndsWitness ==
    \E t, u \in Threads :
        /\ t # u
        /\ gpc[t] = "lock"
        /\ _metrics_lock = u
        /\ gpc[u] = "construct"

\* The request counter summed over every (http_status, error_type) of a
\* method and path.
CounterFor(method, path) ==
    SumValues(request_count,
              { k \in DOMAIN request_count : k[1] = method /\ k[2] = path })

\* C27 (SpecConcurrent): once every observe_request call started has
\* returned, for each (method, path) the observation count of the latency
\* histogram equals the sum of the request counter over all (http_status,
\* error_type) of that (method, path), and the observation count of the
\* size histogram is at most that number.
HistogramCounterConsistency ==
    ( \A w \in Workers : pc[w] = "idle" )
    => \A method \in Methods, path \in Paths :
          /\ SeriesCount(request_latency, <<method, path>>)
                = CounterFor(method, path)
          /\ SeriesCount(response_size, <<method, path>>)
                <= CounterFor(method, path)

\* C27 witness: two concurrent calls for GET /api/users with different
\* status codes have returned; the latency histogram counts both, the two
\* counter series one each, the size histogram the one with a size.
HistogramCounterConsistencyWitness ==
    /\ \A w \in Workers : pc[w] = "idle"
    /\ SeriesCount(request_latency, <<"GET", "/api/users">>) = 2
    /\ LabelsGet(request_count, <<"GET", "/api/users", "200", "none">>) = 1
    /\ LabelsGet(request_count,
                 <<"GET", "/api/users", "503", "server_error">>) = 1
    /\ SeriesCount(response_size, <<"GET", "/api/users">>) = 1

\* The names of the six metrics of an instance with this namespace.
MetricNames(namespace) ==
    { MetricName(namespace, MetricBases[i]) : i \in 1..Len(MetricBases) }

\* C28 (Spec): when RLMetrics(...) raises inside get_metrics_registry the
\* exception reaches that caller, the global instance stays unset and the
\* lock is free again; a call that then finds no instance under the lock
\* runs the constructor again, and no call returns anything but a fully
\* built instance.
ConstructionFailurePropagates ==
    /\ [][\A t \in Threads :
             ( gpc[t] = "construct" /\ ctorRaised' = ctorRaised + 1
               /\ gpc'[t] # "construct" )
             => /\ gpc'[t] = "idle"
                /\ gret'[t] = Raised
                /\ _metrics_instance' = _metrics_instance
                /\ _metrics_instance' = NoInstance
                /\ _metrics_lock = t
                /\ _metrics_lock' = NoThread]_vars
    /\ [][\A t \in Threads :
             ( gpc[t] = "recheck" /\ _metrics_instance = NoInstance )
             => gpc'[t] \in {"recheck", "construct"}]_vars
    /\ [](firstBuilt = NoInstance => _metrics_instance = NoInstance)
    /\ [](\A t \in Threads :
             ( gpc[t] = "idle" /\ gret[t] # NoInstance /\ gret[t] # Raised )
             => /\ gret[t] = _metrics_instance
                /\ MetricNames(gret[t].namespace) \subseteq registered)

\* C28 witness: a call has ended by the constructor's exception, no
\* instance exists, and a later call holds the lock and is about to run
\* the constructor again.
ConstructionFailurePropagatesWitness ==
    \E t, u \in Threads :
        /\ gret[t] = Raised
        /\ ctorRaised = 1 /\ ctorRuns = 1
        /\ _metrics_instance = NoInstance
        /\ gpc[u] = "construct"
        /\ _metrics_lock = u

=============================================================================
